---------------------------- MODULE Spec2Model ----------------------------
(***************************************************************************)
(* Model of the x402 payment gate of the BookkeeperFinder API              *)
(* (src/src/x402_integration.py) together with the resource handler it     *)
(* protects (src/src/agent.py).                                            *)
(*                                                                         *)
(* Data representation.  JSON documents are values of one uniform record   *)
(* shape (JVal).  Text is modelled at the level of lexical tokens: one     *)
(* byte of a JSON text stands for one token of Alphabet, so json.dumps,    *)
(* json.loads, base64.b64encode and base64.b64decode are computed          *)
(* (serialise, parse, 3 bytes <-> 4 sextets, padding) and can fail.        *)
(***************************************************************************)
EXTENDS Integers, Sequences, FiniteSets, TLC

(***************************************************************************)
(* Configuration (module constants of x402_integration.py, defaults).      *)
(***************************************************************************)
WALLET_ADDRESS == "0xb3e17988e6eE4D31e6D07decf363f736461d9e08"
FACILITATOR_URL == "https://x402.org/facilitator"
NETWORK == "eip155:8453"
USDC_ADDRESS == "0x833589fCD6eDb6E08f4c7C32D4f71b54bdA02913"
PRICE_BASE_UNITS == "100000"

(***************************************************************************)
(* JSON values (Python objects after json.loads / before json.dumps).      *)
(***************************************************************************)
JVal(t, s, n, items) == [t |-> t, s |-> s, n |-> n, items |-> items]
KV(k, v) == [k |-> k, v |-> v]
JNull == JVal("null", "", 0, <<>>)
JBool(b) == JVal("bool", "", IF b THEN 1 ELSE 0, <<>>)
JNum(n) == JVal("num", "", n, <<>>)
JStr(s) == JVal("str", s, 0, <<>>)
JList(vs) == JVal("list", "", 0, [i \in 1..Len(vs) |-> KV("", vs[i])])
JDict(kvs) == JVal("dict", "", 0, kvs)

IsDict(v) == v.t = "dict"

\* key in d
HasKey(d, key) == \E i \in 1..Len(d.items) : d.items[i].k = key

\* d.get(key, default) of a dict d
DictGet(d, key, default) ==
    IF HasKey(d, key)
    THEN d.items[CHOOSE i \in 1..Len(d.items) : d.items[i].k = key].v
    ELSE default

\* Python truth value of an object
Truthy(v) ==
    CASE v.t = "null" -> FALSE
      [] v.t = "bool" -> v.n = 1
      [] v.t = "num"  -> v.n # 0
      [] v.t = "str"  -> v.s # ""
      [] OTHER        -> Len(v.items) > 0

\* d[key] = value (assignment to an existing or a new key of a dict)
DictSet(d, key, value) ==
    IF HasKey(d, key)
    THEN JDict([i \in 1..Len(d.items) |->
                  IF d.items[i].k = key THEN KV(key, value) ELSE d.items[i]])
    ELSE JDict(Append(d.items, KV(key, value)))

(***************************************************************************)
(* Tokens of JSON text and their byte codes.                               *)
(***************************************************************************)
Tok(k, s, n) == [k |-> k, s |-> s, n |-> n]
P(s) == Tok("p", s, 0)     \* punctuation and the literals null, true, false
S(s) == Tok("s", s, 0)     \* a string literal
N(n) == Tok("n", "", n)    \* a number literal

Alphabet ==
    << P("{"), P("}"), P("["), P("]"), P(","), P(":"),
       P("null"), P("true"), P("false"),
       N(2), N(5), N(300),
       S("x402Version"), S("error"), S("resource"), S("accepts"),
       S("url"), S("description"), S("mimeType"),
       S("scheme"), S("network"), S("asset"), S("amount"), S("payTo"),
       S("maxTimeoutSeconds"), S("extra"), S("name"), S("version"),
       S("Payment required"), S("Invalid payment signature"),
       S("Find verified bookkeepers and accountants"), S("application/json"),
       S("exact"), S(NETWORK), S(USDC_ADDRESS), S(PRICE_BASE_UNITS),
       S(WALLET_ADDRESS), S("USDC"), S("2"),
       S("http://testserver/find"), S("http://testserver/api/search"),
       S("authorization"), S("success"), S("transaction"), S("0xabc"),
       S("errorReason"), S("insufficient_funds") >>

Code(tok) == CHOOSE i \in 1..Len(Alphabet) : Alphabet[i] = tok

\* a byte that is no token of a JSON text
JunkByte == 0

(***************************************************************************)
(* json.dumps                                                              *)
(***************************************************************************)
RECURSIVE Dumps(_), DumpsItems(_, _, _)
Dumps(v) ==
    CASE v.t = "null" -> << Code(P("null")) >>
      [] v.t = "bool" -> << Code(P(IF v.n = 1 THEN "true" ELSE "false")) >>
      [] v.t = "num"  -> << Code(N(v.n)) >>
      [] v.t = "str"  -> << Code(S(v.s)) >>
      [] v.t = "list" -> << Code(P("[")) >> \o DumpsItems(v.items, 1, FALSE)
                            \o << Code(P("]")) >>
      [] OTHER        -> << Code(P("{")) >> \o DumpsItems(v.items, 1, TRUE)
                            \o << Code(P("}")) >>

DumpsItems(items, i, keyed) ==
    IF i > Len(items) THEN << >>
    ELSE (IF i > 1 THEN << Code(P(",")) >> ELSE << >>)
         \o (IF keyed THEN << Code(S(items[i].k)), Code(P(":")) >> ELSE << >>)
         \o Dumps(items[i].v)
         \o DumpsItems(items, i + 1, keyed)

(***************************************************************************)
(* json.loads: a recursive-descent parse of the whole text.  The result    *)
(* is [ok, v, i]: ok FALSE stands for the exception json.loads raises.     *)
(***************************************************************************)
ParseFail == [ok |-> FALSE, v |-> JNull, i |-> 0]
ParseOk(v, i) == [ok |-> TRUE, v |-> v, i |-> i]

RECURSIVE ParseValue(_, _), ParseMembers(_, _, _), ParseElements(_, _, _)
ParseValue(toks, i) ==
    IF i > Len(toks) THEN ParseFail
    ELSE LET t == toks[i] IN
         CASE t.k = "s" -> ParseOk(JStr(t.s), i + 1)
           [] t.k = "n" -> ParseOk(JNum(t.n), i + 1)
           [] t = P("null")  -> ParseOk(JNull, i + 1)
           [] t = P("true")  -> ParseOk(JBool(TRUE), i + 1)
           [] t = P("false") -> ParseOk(JBool(FALSE), i + 1)
           [] t = P("{") ->
                IF i + 1 <= Len(toks) /\ toks[i + 1] = P("}")
                THEN ParseOk(JDict(<< >>), i + 2)
                ELSE ParseMembers(toks, i + 1, << >>)
           [] t = P("[") ->
                IF i + 1 <= Len(toks) /\ toks[i + 1] = P("]")
                THEN ParseOk(JList(<< >>), i + 2)
                ELSE ParseElements(toks, i + 1, << >>)
           [] OTHER -> ParseFail

\* after "{" or ",": string ":" value, then "," or "}"
ParseMembers(toks, i, acc) ==
    IF i + 1 > Len(toks) \/ toks[i].k # "s" \/ toks[i + 1] # P(":") THEN ParseFail
    ELSE LET r == ParseValue(toks, i + 2) IN
         IF ~r.ok \/ r.i > Len(toks) THEN ParseFail
         ELSE LET d == DictSet(JDict(acc), toks[i].s, r.v).items IN
              IF toks[r.i] = P("}") THEN ParseOk(JDict(d), r.i + 1)
              ELSE IF toks[r.i] = P(",") THEN ParseMembers(toks, r.i + 1, d)
              ELSE ParseFail

\* after "[" or ",": value, then "," or "]"
ParseElements(toks, i, acc) ==
    LET r == ParseValue(toks, i) IN
    IF ~r.ok \/ r.i > Len(toks) THEN ParseFail
    ELSE IF toks[r.i] = P("]") THEN ParseOk(JList(Append(acc, r.v)), r.i + 1)
    ELSE IF toks[r.i] = P(",") THEN ParseElements(toks, r.i + 1, Append(acc, r.v))
    ELSE ParseFail

Loads(bytes) ==
    IF \E i \in 1..Len(bytes) : bytes[i] \notin 1..Len(Alphabet) THEN ParseFail
    ELSE LET r == ParseValue([i \in 1..Len(bytes) |-> Alphabet[bytes[i]]], 1) IN
         IF r.ok /\ r.i = Len(bytes) + 1 THEN r ELSE ParseFail

(***************************************************************************)
(* base64.  A base64 text is a sequence of characters: 0..63 the alphabet, *)
(* PadChar the "=", OtherChar a character outside the alphabet.            *)
(***************************************************************************)
PadChar == 64
OtherChar == 65

RECURSIVE B64Encode(_)
B64Encode(b) ==
    IF Len(b) = 0 THEN << >>
    ELSE IF Len(b) = 1 THEN
        << b[1] \div 4, (b[1] % 4) * 16, PadChar, PadChar >>
    ELSE IF Len(b) = 2 THEN
        << b[1] \div 4, (b[1] % 4) * 16 + b[2] \div 16, (b[2] % 16) * 4, PadChar >>
    ELSE
        << b[1] \div 4, (b[1] % 4) * 16 + b[2] \div 16,
           (b[2] % 16) * 4 + b[3] \div 64, b[3] % 64 >>
        \o B64Encode(SubSeq(b, 4, Len(b)))

IsAlphabetChar(c) == c < PadChar

\* base64.b64decode(s) with validate=False.  The scan skips characters
\* outside the alphabet; a "=" counts as padding once two or three characters
\* of a group were read, and the scan stops at the "=" that completes the
\* group (what follows is ignored).  Without such a stop, a group left
\* incomplete at the end is an error (ok FALSE stands for binascii.Error).
B64Decode(s) ==
    LET quad_pos(i) == Cardinality({ j \in 1..(i - 1) : IsAlphabetChar(s[j]) }) % 4
        last_data(i) == IF \E j \in 1..(i - 1) : IsAlphabetChar(s[j])
                        THEN CHOOSE j \in 1..(i - 1) :
                                 /\ IsAlphabetChar(s[j])
                                 /\ \A k \in (j + 1)..(i - 1) : ~IsAlphabetChar(s[k])
                        ELSE 0
        pads(i) == Cardinality({ j \in (last_data(i) + 1)..(i - 1) : s[j] = PadChar })
        completes(i) == /\ s[i] = PadChar
                        /\ quad_pos(i) >= 2
                        /\ quad_pos(i) + pads(i) + 1 >= 4
        stopped == \E i \in 1..Len(s) : completes(i)
        stop == IF stopped
                THEN CHOOSE i \in 1..Len(s) :
                         completes(i) /\ \A k \in 1..(i - 1) : ~completes(k)
                ELSE Len(s) + 1
        data == SelectSeq(SubSeq(s, 1, stop - 1), IsAlphabetChar)
        n == 3 * (Len(data) \div 4)
               + (IF Len(data) % 4 > 1 THEN (Len(data) % 4) - 1 ELSE 0)
        byte(j) == LET g == (j - 1) \div 3
                       r == (j - 1) % 3
                       a == data[4 * g + r + 1]
                       b == data[4 * g + r + 2]
                   IN CASE r = 0 -> a * 4 + b \div 16
                        [] r = 1 -> (a % 16) * 16 + b \div 4
                        [] OTHER -> (a % 4) * 64 + b
    IN [ok |-> stopped \/ Len(data) % 4 = 0, bytes |-> [j \in 1..n |-> byte(j)]]

(***************************************************************************)
(* HTTP messages.                                                          *)
(***************************************************************************)
\* an optional text (None, or a str): a request or response header value
None == [present |-> FALSE, val |-> << >>]
Some(text) == [present |-> TRUE, val |-> text]

\* Python truth value of an optional str: None and "" are false
TruthyText(o) == o.present /\ Len(o.val) > 0

\* a or b
PyOr(a, b) == IF TruthyText(a) THEN a ELSE b

\* str.lower() on the header names in use
Lower(name) ==
    CASE name \in {"payment-signature", "PAYMENT-SIGNATURE", "Payment-Signature"}
           -> "payment-signature"
      [] name \in {"x-payment", "X-PAYMENT", "X-Payment"} -> "x-payment"
      [] OTHER -> name

\* request.headers.get(key): the first header whose name matches key,
\* compared without case; None when there is none
HeadersGet(headers, key) ==
    IF \E i \in 1..Len(headers) : Lower(headers[i].name) = Lower(key)
    THEN LET i == CHOOSE j \in 1..Len(headers) :
                     /\ Lower(headers[j].name) = Lower(key)
                     /\ \A k \in 1..(j - 1) : Lower(headers[k].name) # Lower(key)
         IN Some(headers[i].value)
    ELSE None

Response(status, body, payment_required, payment_response) ==
    [status |-> status, body |-> body,
     payment_required |-> payment_required, payment_response |-> payment_response]

NoResponse == Response(0, JNull, None, None)

\* JSONResponse(status_code, content, headers={"PAYMENT-REQUIRED": encoded})
JSONResponse(status, content, encoded) == Response(status, content, Some(encoded), None)

\* str(request.url) of the protected routes
UrlOf(path) ==
    IF path = "/find" THEN "http://testserver/find" ELSE "http://testserver/api/search"

(***************************************************************************)
(* build_payment_required, encode_payment_required                         *)
(***************************************************************************)
\* mutant: asset and amount swapped
build_payment_required_Swapped(request_url) ==
    JDict(<< KV("x402Version", JNum(2)),
             KV("error", JStr("Payment required")),
             KV("resource", JDict(<<
                 KV("url", JStr(request_url)),
                 KV("description", JStr("Find verified bookkeepers and accountants")),
                 KV("mimeType", JStr("application/json")) >>)),
             KV("accepts", JList(<< JDict(<<
                 KV("scheme", JStr("exact")),
                 KV("network", JStr(NETWORK)),
                 KV("asset", JStr(PRICE_BASE_UNITS)),
                 KV("amount", JStr(USDC_ADDRESS)),
                 KV("payTo", JStr(WALLET_ADDRESS)),
                 KV("maxTimeoutSeconds", JNum(300)),
                 KV("extra", JDict(<< KV("name", JStr("USDC")),
                                      KV("version", JStr("2")) >>)) >>) >>)) >>)

build_payment_required(request_url) ==
    JDict(<< KV("x402Version", JNum(2)),
             KV("error", JStr("Payment required")),
             KV("resource", JDict(<<
                 KV("url", JStr(request_url)),
                 KV("description", JStr("Find verified bookkeepers and accountants")),
                 KV("mimeType", JStr("application/json")) >>)),
             KV("accepts", JList(<< JDict(<<
                 KV("scheme", JStr("exact")),
                 KV("network", JStr(NETWORK)),
                 KV("asset", JStr(USDC_ADDRESS)),
                 KV("amount", JStr(PRICE_BASE_UNITS)),
                 KV("payTo", JStr(WALLET_ADDRESS)),
                 KV("maxTimeoutSeconds", JNum(300)),
                 KV("extra", JDict(<< KV("name", JStr("USDC")),
                                      KV("version", JStr("2")) >>)) >>) >>)) >>)

encode_payment_required(pr) == B64Encode(Dumps(pr))

\* mutant: the whole challenge is passed as the requirement
Accepts0_Whole(pr) == pr

\* pr["accepts"][0]
Accepts0(pr) == DictGet(pr, "accepts", JNull).items[1].v

\* json.loads(base64.b64decode(payment_header)); ok FALSE: an exception
DecodePayment(payment_header) ==
    LET raw == B64Decode(payment_header) IN
    IF raw.ok THEN Loads(raw.bytes) ELSE ParseFail

(***************************************************************************)
(* The facilitator: an HTTP call returns a JSON reply or raises.           *)
(***************************************************************************)
Reply(val) == [raised |-> FALSE, val |-> val]
Raised == [raised |-> TRUE, val |-> JNull]

\* mutant: the request is posted without a timeout (timeout 0)
FacilitatorCall_NoTimeout(endpoint, payment_payload, payment_requirements) ==
    [url |-> endpoint,
     base |-> FACILITATOR_URL,
     json |-> JDict(<< KV("x402Version", JNum(2)),
                       KV("paymentPayload", payment_payload),
                       KV("paymentRequirements", payment_requirements) >>),
     timeout |-> 0]

\* the request verify_payment_with_facilitator / settle_payment_with_facilitator
\* post, with its timeout in seconds
FacilitatorCall(endpoint, payment_payload, payment_requirements) ==
    [url |-> endpoint,
     base |-> FACILITATOR_URL,
     json |-> JDict(<< KV("x402Version", JNum(2)),
                       KV("paymentPayload", payment_payload),
                       KV("paymentRequirements", payment_requirements) >>),
     timeout |-> 30]

VerifyReplies ==
    { Reply(JDict(<< KV("isValid", JBool(TRUE)) >>)),
      Reply(JDict(<< KV("isValid", JBool(FALSE)),
                     KV("invalidReason", JStr("insufficient_funds")) >>)),
      Reply(JDict(<< KV("isValid", JBool(FALSE)) >>)),
      Reply(JDict(<< KV("error", JStr("internal error")) >>)),
      Reply(JList(<< >>)),
      Raised }

SettleReplies ==
    { Reply(JDict(<< KV("success", JBool(TRUE)),
                     KV("transaction", JStr("0xabc")) >>)),
      Reply(JDict(<< KV("success", JBool(FALSE)),
                     KV("errorReason", JStr("insufficient_funds")) >>)),
      Reply(JList(<< >>)),
      Raised }


(***************************************************************************)
(* The resource handler: BookkeeperFinderAgent (src/src/agent.py).         *)
(* Ratings are kept in tenths (48 is 4.8), scores in tenths as well.       *)
(***************************************************************************)
JTenths(n) == JVal("float", "", n, << >>)

\* the methods class BookkeeperFinderAgent defines
AgentMethods ==
    { "find_bookkeepers", "_is_california", "_search_bookkeepers",
      "_verify_cba_license", "_check_quickbooks_certified", "_get_yelp_reviews",
      "_get_enhanced_mock_reviews", "_verify_license", "_determine_services",
      "_get_mock_bookkeepers", "generate_response" }

Locations == { "Miami, FL", "Los Angeles, CA" }

\* _is_california(location), on the locations in use
is_california(location) == location = "Los Angeles, CA"

\* _get_mock_bookkeepers: the eight names built from the city of the location
get_mock_bookkeepers(location) ==
    IF location = "Miami, FL"
    THEN << "Miami Bookkeeping & Tax", "Elite Miami Accounting",
            "Premier Financial Services Miami", "Miami Small Business Accounting",
            "Professional Bookkeepers Miami", "Miami Tax & Accounting",
            "Accurate Books Miami", "Miami CPA Services" >>
    ELSE << "Los Angeles Bookkeeping & Tax", "Elite Los Angeles Accounting",
            "Premier Financial Services Los Angeles",
            "Los Angeles Small Business Accounting",
            "Professional Bookkeepers Los Angeles", "Los Angeles Tax & Accounting",
            "Accurate Books Los Angeles", "Los Angeles CPA Services" >>

\* _get_enhanced_mock_reviews: random.seed(name); rating = round(uniform(4.2,
\* 4.9), 1); review_count = randint(5, 200).  The values are those CPython's
\* generator yields for each name.
mock_reviews(name) ==
    CASE name = "Miami Bookkeeping & Tax"          -> [rating |-> 48, review_count |-> 116]
      [] name = "Elite Miami Accounting"           -> [rating |-> 43, review_count |-> 70]
      [] name = "Premier Financial Services Miami" -> [rating |-> 48, review_count |-> 145]
      [] name = "Miami Small Business Accounting"  -> [rating |-> 43, review_count |-> 7]
      [] name = "Professional Bookkeepers Miami"   -> [rating |-> 43, review_count |-> 57]
      [] name = "Miami Tax & Accounting"           -> [rating |-> 48, review_count |-> 161]
      [] name = "Accurate Books Miami"             -> [rating |-> 48, review_count |-> 157]
      [] name = "Miami CPA Services"               -> [rating |-> 48, review_count |-> 105]
      [] name = "Los Angeles Bookkeeping & Tax"    -> [rating |-> 48, review_count |-> 78]
      [] name = "Elite Los Angeles Accounting"     -> [rating |-> 48, review_count |-> 70]
      [] name = "Premier Financial Services Los Angeles"
                                                   -> [rating |-> 46, review_count |-> 61]
      [] name = "Los Angeles Small Business Accounting"
                                                   -> [rating |-> 46, review_count |-> 156]
      [] name = "Professional Bookkeepers Los Angeles"
                                                   -> [rating |-> 49, review_count |-> 66]
      [] name = "Los Angeles Tax & Accounting"     -> [rating |-> 43, review_count |-> 47]
      [] name = "Accurate Books Los Angeles"       -> [rating |-> 49, review_count |-> 146]
      [] OTHER                                     -> [rating |-> 48, review_count |-> 88]

\* _check_quickbooks_certified: random.seed(name + "quickbooks");
\* random.random() > 0.6
quickbooks_certified(name) ==
    name \in { "Miami Bookkeeping & Tax", "Elite Miami Accounting",
               "Premier Financial Services Miami", "Miami Tax & Accounting",
               "Miami CPA Services", "Elite Los Angeles Accounting",
               "Professional Bookkeepers Los Angeles", "Los Angeles CPA Services" }

\* the sort key of step 6: rating * review_count + (50 if quickbooks_certified)
score(b) == b.rating * b.review_count + (IF b.quickbooks_certified THEN 500 ELSE 0)

\* mutant: step 4 keeps every provider, whatever its rating
FilterSeq_KeepAll(xs, keep) == xs

\* [x for x in xs if keep(x)] for a set of kept indices
RECURSIVE FilterSeq(_, _)
FilterSeq(xs, keep) ==
    IF xs = << >> THEN << >>
    ELSE (IF keep[Len(xs)] THEN FilterSeq(SubSeq(xs, 1, Len(xs) - 1), keep) \o << xs[Len(xs)] >>
          ELSE FilterSeq(SubSeq(xs, 1, Len(xs) - 1), keep))

\* sorted(xs, key=score, reverse=True): stable, equal keys keep their order
sorted_by_score(xs) ==
    LET rank(i) == Cardinality({ j \in 1..Len(xs) :
                       \/ score(xs[j]) > score(xs[i])
                       \/ score(xs[j]) = score(xs[i]) /\ j < i }) + 1
    IN [r \in 1..Len(xs) |-> xs[CHOOSE i \in 1..Len(xs) : rank(i) = r]]

\* b.to_dict(), the fields the ranking sets
bookkeeper_dict(b) ==
    JDict(<< KV("name", JStr(b.name)),
             KV("rating", JTenths(b.rating)),
             KV("review_count", JNum(b.review_count)),
             KV("quickbooks_certified", JBool(b.quickbooks_certified)) >>)

\* An exception raised by the handler (exc is the exception's text).
Raise(exc) == [raised |-> TRUE, exc |-> exc, val |-> JNull]
Return(val) == [raised |-> FALSE, exc |-> "", val |-> val]

\* BookkeeperFinderAgent.find_bookkeepers on an agent object with the
\* attributes attrs.  Step 3 looks up self._check_quickbooks_cert for the
\* first verified bookkeeper.
find_bookkeepers(attrs, service, location, min_rating) ==
    LET bookkeepers == get_mock_bookkeepers(location)
        verified == bookkeepers
    IN  IF Len(verified) > 0 /\ "_check_quickbooks_cert" \notin attrs
        THEN Raise("'BookkeeperFinderAgent' object has no attribute '_check_quickbooks_cert'")
        ELSE
        LET with_reviews == [i \in 1..Len(verified) |->
                [name |-> verified[i],
                 rating |-> mock_reviews(verified[i]).rating,
                 review_count |-> mock_reviews(verified[i]).review_count,
                 quickbooks_certified |-> quickbooks_certified(verified[i])]]
            qualified == FilterSeq(with_reviews,
                [i \in 1..Len(with_reviews) |-> with_reviews[i].rating >= min_rating])
            ranked == sorted_by_score(qualified)
            top == SubSeq(ranked, 1, IF Len(ranked) < 3 THEN Len(ranked) ELSE 3)
        IN Return(JDict(<<
              KV("query", JDict(<< KV("service", JStr(service)),
                                   KV("location", JStr(location)),
                                   KV("min_rating", JTenths(min_rating)) >>)),
              KV("results", JList([i \in 1..Len(top) |-> bookkeeper_dict(top[i])])),
              KV("count", JNum(Len(ranked))),
              KV("price_charged", JTenths(1)),
              KV("data_sources",
                 IF is_california(location)
                 THEN JList(<< JStr("Google Maps"), JStr("CBA"), JStr("Yelp"),
                               JStr("QuickBooks") >>)
                 ELSE JList(<< JStr("Google Maps"), JStr("Yelp"),
                               JStr("QuickBooks") >>)) >>))

(***************************************************************************)
(* The earlier resource handlers: ContractorFinderAgent of                 *)
(* src/src/agent_original.py and src/src/agent_enhanced.py, without API    *)
(* tokens in the environment.  Ratings are kept in tenths.                 *)
(***************************************************************************)
HandlerModules == { "agent", "agent_original", "agent_enhanced" }
Trades == { "plumber", "roofer" }
ContractorLocations == { "Austin, TX", "Los Angeles, CA" }
MinRatings == { 0, 40, 45, 50 }

\* The state of the generator the functions of module random share: as the
\* interpreter seeded it at start, or as the draws after the last
\* random.seed(seed + suffix) left it.
Unseeded == [seeded |-> FALSE, seed |-> "", suffix |-> ""]
SeededBy(seed, suffix) == [seeded |-> TRUE, seed |-> seed, suffix |-> suffix]

\* _get_mock_contractors: mock_names, for the trades and locations in use
mock_names(module, trade, location) ==
    CASE module = "agent_original" /\ trade = "plumber" /\ location = "Austin, TX" ->
            << "Austin Plumber Pros",
               "Elite Plumber Services",
               "Premier Plumber Solutions",
               "Plumber Masters Austin",
               "All-Star Plumber" >>
      [] module = "agent_original" /\ trade = "plumber" /\ location = "Los Angeles, CA" ->
            << "Los Angeles Plumber Pros",
               "Elite Plumber Services",
               "Premier Plumber Solutions",
               "Plumber Masters Los Angeles",
               "All-Star Plumber" >>
      [] module = "agent_original" /\ trade = "roofer" /\ location = "Austin, TX" ->
            << "Austin Roofer Pros",
               "Elite Roofer Services",
               "Premier Roofer Solutions",
               "Roofer Masters Austin",
               "All-Star Roofer" >>
      [] module = "agent_original" /\ trade = "roofer" /\ location = "Los Angeles, CA" ->
            << "Los Angeles Roofer Pros",
               "Elite Roofer Services",
               "Premier Roofer Solutions",
               "Roofer Masters Los Angeles",
               "All-Star Roofer" >>
      [] module = "agent_enhanced" /\ trade = "plumber" /\ location = "Austin, TX" ->
            << "Austin Plumber Pros",
               "Elite Plumber Services",
               "Premier Plumber Solutions",
               "Plumber Masters Austin",
               "All-Star Plumber",
               "Austin Premier Plumber",
               "Pro Plumber Austin",
               "Plumber Experts" >>
      [] module = "agent_enhanced" /\ trade = "plumber" /\ location = "Los Angeles, CA" ->
            << "Los Angeles Plumber Pros",
               "Elite Plumber Services",
               "Premier Plumber Solutions",
               "Plumber Masters Los Angeles",
               "All-Star Plumber",
               "Los Angeles Premier Plumber",
               "Pro Plumber Los Angeles",
               "Plumber Experts" >>
      [] module = "agent_enhanced" /\ trade = "roofer" /\ location = "Austin, TX" ->
            << "Austin Roofer Pros",
               "Elite Roofer Services",
               "Premier Roofer Solutions",
               "Roofer Masters Austin",
               "All-Star Roofer",
               "Austin Premier Roofer",
               "Pro Roofer Austin",
               "Roofer Experts" >>
      [] module = "agent_enhanced" /\ trade = "roofer" /\ location = "Los Angeles, CA" ->
            << "Los Angeles Roofer Pros",
               "Elite Roofer Services",
               "Premier Roofer Solutions",
               "Roofer Masters Los Angeles",
               "All-Star Roofer",
               "Los Angeles Premier Roofer",
               "Pro Roofer Los Angeles",
               "Roofer Experts" >>

\* _verify_license: random.seed(name); license_status from random.random(),
\* license_number from random.randint(10000, 99999).  The values are those
\* CPython's generator yields for each name.
verify_license(name) ==
    CASE name = "Austin Plumber Pros" -> [license_number |-> "LIC-50504", license_status |-> "ACTIVE", verified |-> TRUE]
      [] name = "Elite Plumber Services" -> [license_number |-> "LIC-81665", license_status |-> "ACTIVE", verified |-> TRUE]
      [] name = "Premier Plumber Solutions" -> [license_number |-> "LIC-51423", license_status |-> "ACTIVE", verified |-> TRUE]
      [] name = "Plumber Masters Austin" -> [license_number |-> "LIC-19077", license_status |-> "ACTIVE", verified |-> TRUE]
      [] name = "All-Star Plumber" -> [license_number |-> "LIC-80263", license_status |-> "EXPIRED", verified |-> FALSE]
      [] name = "Los Angeles Plumber Pros" -> [license_number |-> "LIC-62283", license_status |-> "ACTIVE", verified |-> TRUE]
      [] name = "Plumber Masters Los Angeles" -> [license_number |-> "LIC-22849", license_status |-> "ACTIVE", verified |-> TRUE]
      [] name = "Austin Roofer Pros" -> [license_number |-> "LIC-73302", license_status |-> "EXPIRED", verified |-> FALSE]
      [] name = "Elite Roofer Services" -> [license_number |-> "LIC-37048", license_status |-> "ACTIVE", verified |-> TRUE]
      [] name = "Premier Roofer Solutions" -> [license_number |-> "LIC-51779", license_status |-> "ACTIVE", verified |-> TRUE]
      [] name = "Roofer Masters Austin" -> [license_number |-> "LIC-39951", license_status |-> "ACTIVE", verified |-> TRUE]
      [] name = "All-Star Roofer" -> [license_number |-> "LIC-51786", license_status |-> "ACTIVE", verified |-> TRUE]
      [] name = "Los Angeles Roofer Pros" -> [license_number |-> "LIC-86301", license_status |-> "ACTIVE", verified |-> TRUE]
      [] name = "Roofer Masters Los Angeles" -> [license_number |-> "LIC-85414", license_status |-> "ACTIVE", verified |-> TRUE]
      [] name = "Austin Premier Plumber" -> [license_number |-> "LIC-24583", license_status |-> "ACTIVE", verified |-> TRUE]
      [] name = "Pro Plumber Austin" -> [license_number |-> "LIC-21382", license_status |-> "ACTIVE", verified |-> TRUE]
      [] name = "Plumber Experts" -> [license_number |-> "LIC-75860", license_status |-> "ACTIVE", verified |-> TRUE]
      [] name = "Los Angeles Premier Plumber" -> [license_number |-> "LIC-71477", license_status |-> "ACTIVE", verified |-> TRUE]
      [] name = "Pro Plumber Los Angeles" -> [license_number |-> "LIC-11416", license_status |-> "ACTIVE", verified |-> TRUE]
      [] name = "Austin Premier Roofer" -> [license_number |-> "LIC-73356", license_status |-> "ACTIVE", verified |-> TRUE]
      [] name = "Pro Roofer Austin" -> [license_number |-> "LIC-22158", license_status |-> "EXPIRED", verified |-> FALSE]
      [] name = "Roofer Experts" -> [license_number |-> "LIC-86657", license_status |-> "ACTIVE", verified |-> TRUE]
      [] name = "Los Angeles Premier Roofer" -> [license_number |-> "LIC-66601", license_status |-> "ACTIVE", verified |-> TRUE]
      [] name = "Pro Roofer Los Angeles" -> [license_number |-> "LIC-41365", license_status |-> "ACTIVE", verified |-> TRUE]

\* _verify_cslb_license: random.seed(name + "cslb"); is_licensed from
\* random.random(), the number from random.randint(100000, 999999)
verify_cslb_license(name) ==
    CASE name = "Los Angeles Plumber Pros" -> [license_number |-> "N/A", license_status |-> "NOT FOUND", verified |-> FALSE]
      [] name = "Elite Plumber Services" -> [license_number |-> "CSLB-888371", license_status |-> "ACTIVE", verified |-> TRUE]
      [] name = "Premier Plumber Solutions" -> [license_number |-> "CSLB-386965", license_status |-> "ACTIVE", verified |-> TRUE]
      [] name = "Plumber Masters Los Angeles" -> [license_number |-> "CSLB-239072", license_status |-> "ACTIVE", verified |-> TRUE]
      [] name = "All-Star Plumber" -> [license_number |-> "CSLB-539935", license_status |-> "ACTIVE", verified |-> TRUE]
      [] name = "Los Angeles Premier Plumber" -> [license_number |-> "CSLB-482311", license_status |-> "ACTIVE", verified |-> TRUE]
      [] name = "Pro Plumber Los Angeles" -> [license_number |-> "CSLB-987976", license_status |-> "ACTIVE", verified |-> TRUE]
      [] name = "Plumber Experts" -> [license_number |-> "CSLB-257647", license_status |-> "ACTIVE", verified |-> TRUE]
      [] name = "Los Angeles Roofer Pros" -> [license_number |-> "N/A", license_status |-> "NOT FOUND", verified |-> FALSE]
      [] name = "Elite Roofer Services" -> [license_number |-> "CSLB-431917", license_status |-> "ACTIVE", verified |-> TRUE]
      [] name = "Premier Roofer Solutions" -> [license_number |-> "CSLB-909977", license_status |-> "ACTIVE", verified |-> TRUE]
      [] name = "Roofer Masters Los Angeles" -> [license_number |-> "CSLB-178680", license_status |-> "ACTIVE", verified |-> TRUE]
      [] name = "All-Star Roofer" -> [license_number |-> "N/A", license_status |-> "NOT FOUND", verified |-> FALSE]
      [] name = "Los Angeles Premier Roofer" -> [license_number |-> "CSLB-190445", license_status |-> "ACTIVE", verified |-> TRUE]
      [] name = "Pro Roofer Los Angeles" -> [license_number |-> "CSLB-450218", license_status |-> "ACTIVE", verified |-> TRUE]
      [] name = "Roofer Experts" -> [license_number |-> "CSLB-388902", license_status |-> "ACTIVE", verified |-> TRUE]

\* agent_original._get_reviews: random.seed(name); rating = round(uniform(3.5,
\* 5.0), 1) in tenths; review_count = randint(5, 500)
get_reviews(name) ==
    CASE name = "Austin Plumber Pros" -> [rating |-> 49, review_count |-> 163]
      [] name = "Elite Plumber Services" -> [rating |-> 44, review_count |-> 284]
      [] name = "Premier Plumber Solutions" -> [rating |-> 41, review_count |-> 395]
      [] name = "Plumber Masters Austin" -> [rating |-> 45, review_count |-> 40]
      [] name = "All-Star Plumber" -> [rating |-> 36, review_count |-> 279]
      [] name = "Los Angeles Plumber Pros" -> [rating |-> 40, review_count |-> 209]
      [] name = "Plumber Masters Los Angeles" -> [rating |-> 40, review_count |-> 55]
      [] name = "Austin Roofer Pros" -> [rating |-> 35, review_count |-> 252]
      [] name = "Elite Roofer Services" -> [rating |-> 43, review_count |-> 110]
      [] name = "Premier Roofer Solutions" -> [rating |-> 47, review_count |-> 168]
      [] name = "Roofer Masters Austin" -> [rating |-> 47, review_count |-> 497]
      [] name = "All-Star Roofer" -> [rating |-> 46, review_count |-> 168]
      [] name = "Los Angeles Roofer Pros" -> [rating |-> 41, review_count |-> 303]
      [] name = "Roofer Masters Los Angeles" -> [rating |-> 39, review_count |-> 493]

\* agent_enhanced._get_enhanced_mock_reviews: random.seed(name); rating =
\* round(uniform(3.8, 4.9), 1) in tenths; review_count = randint(10, 500)
get_enhanced_mock_reviews(name) ==
    CASE name = "Austin Plumber Pros" -> [rating |-> 48, review_count |-> 168]
      [] name = "Elite Plumber Services" -> [rating |-> 45, review_count |-> 289]
      [] name = "Premier Plumber Solutions" -> [rating |-> 42, review_count |-> 400]
      [] name = "Plumber Masters Austin" -> [rating |-> 45, review_count |-> 45]
      [] name = "All-Star Plumber" -> [rating |-> 39, review_count |-> 284]
      [] name = "Austin Premier Plumber" -> [rating |-> 45, review_count |-> 66]
      [] name = "Pro Plumber Austin" -> [rating |-> 42, review_count |-> 54]
      [] name = "Plumber Experts" -> [rating |-> 48, review_count |-> 267]
      [] name = "Los Angeles Plumber Pros" -> [rating |-> 42, review_count |-> 214]
      [] name = "Plumber Masters Los Angeles" -> [rating |-> 42, review_count |-> 60]
      [] name = "Los Angeles Premier Plumber" -> [rating |-> 45, review_count |-> 250]
      [] name = "Pro Plumber Los Angeles" -> [rating |-> 44, review_count |-> 15]
      [] name = "Austin Roofer Pros" -> [rating |-> 38, review_count |-> 257]
      [] name = "Elite Roofer Services" -> [rating |-> 44, review_count |-> 115]
      [] name = "Premier Roofer Solutions" -> [rating |-> 47, review_count |-> 173]
      [] name = "Roofer Masters Austin" -> [rating |-> 47, review_count |-> 395]
      [] name = "All-Star Roofer" -> [rating |-> 46, review_count |-> 173]
      [] name = "Austin Premier Roofer" -> [rating |-> 49, review_count |-> 257]
      [] name = "Pro Roofer Austin" -> [rating |-> 39, review_count |-> 481]
      [] name = "Roofer Experts" -> [rating |-> 45, review_count |-> 309]
      [] name = "Los Angeles Roofer Pros" -> [rating |-> 42, review_count |-> 308]
      [] name = "Roofer Masters Los Angeles" -> [rating |-> 41, review_count |-> 498]
      [] name = "Los Angeles Premier Roofer" -> [rating |-> 47, review_count |-> 231]
      [] name = "Pro Roofer Los Angeles" -> [rating |-> 40, review_count |-> 132]

\* What random.randint(100, 9999), random.randint(1000, 9999), ... yield in
\* _get_mock_contractors when the generator is in the state the last review
\* of an earlier find_contractors left it in (seeded by the last mock name).
SeededDraws(module, seed) ==
    CASE module = "agent_original" /\ seed = "All-Star Plumber" ->
            << 6612, 2885, 2711, 2589, 3375, 8489, 651, 3418, 1399, 4655, 4313, 3279, 931, 1311, 1315, 7844 >>
      [] module = "agent_original" /\ seed = "All-Star Roofer" ->
            << 238, 5159, 8627, 5781, 7260, 2737, 4334, 5184, 7510, 3505, 2851, 5186, 6847, 1097, 2523, 7016 >>
      [] module = "agent_enhanced" /\ seed = "Plumber Experts" ->
            << 4342, 9237, 5631, 3321, 9051, 8940, 3837, 1269, 7253, 3079, 2798, 3304, 1703, 8510, 424, 3804 >>
      [] module = "agent_enhanced" /\ seed = "Roofer Experts" ->
            << 4083, 2912, 9271, 9373, 9313, 5720, 8993, 2135, 7902, 5084, 3219, 4219, 4570, 2482, 1576, 8726 >>

\* two of the sequences a generator seeded from the operating system yields
UnseededDraws ==
    { << 2301, 2033, 4279, 2931, 8217, 8364, 7837, 7219, 3539, 2537, 8093, 1464, 6486, 8090, 134, 8297 >>,
      << 1026, 2500, 1490, 6915, 2870, 6048, 4221, 4476, 685, 3594, 7156, 7447, 8440, 7095, 9015, 8288 >> }

\* the values the random.randint calls of _get_mock_contractors can yield
Draws(module, rng) ==
    IF rng.seeded THEN { SeededDraws(module, rng.seed) } ELSE UnseededDraws

\* _get_mock_contractors: address and phone of each mock contractor come from
\* random.randint on the shared generator
get_mock_contractors(module, trade, location, draws) ==
    LET names == mock_names(module, trade, location)
    IN [i \in 1..Len(names) |->
           [name |-> names[i],
            address |-> [number |-> draws[2 * i - 1], street |-> location],
            phone |-> draws[2 * i]]]

\* steps 2 and 3 of find_contractors for one contractor: the license check
\* and the reviews
verified_with_reviews(module, location, c) ==
    LET license == IF module = "agent_enhanced" /\ is_california(location)
                   THEN verify_cslb_license(c.name)
                   ELSE verify_license(c.name)
        reviews == IF module = "agent_original" THEN get_reviews(c.name)
                   ELSE get_enhanced_mock_reviews(c.name)
    IN [name |-> c.name,
        license_number |-> license.license_number,
        license_status |-> license.license_status,
        phone |-> c.phone,
        rating |-> reviews.rating,
        review_count |-> reviews.review_count,
        verified |-> license.verified,
        address |-> c.address]

\* the sort key of find_contractors: rating * review_count
contractor_score(c) == c.rating * c.review_count

\* mutant: the qualified contractors are returned in the order found
ranked_contractors_Unsorted(xs) == xs

\* sorted(qualified, key=score, reverse=True): equal keys keep their order
ranked_contractors(xs) ==
    LET rank(i) == Cardinality({ j \in 1..Len(xs) :
                       \/ contractor_score(xs[j]) > contractor_score(xs[i])
                       \/ contractor_score(xs[j]) = contractor_score(xs[i]) /\ j < i }) + 1
    IN [r \in 1..Len(xs) |-> xs[CHOOSE i \in 1..Len(xs) : rank(i) = r]]

\* ContractorFinderAgent.find_contractors; draws are the values the shared
\* generator yields to _get_mock_contractors
find_contractors(module, trade, location, min_rating, draws) ==
    LET contractors == get_mock_contractors(module, trade, location, draws)
        with_reviews == [i \in 1..Len(contractors) |->
                            verified_with_reviews(module, location, contractors[i])]
        qualified == FilterSeq(with_reviews,
            [i \in 1..Len(with_reviews) |-> with_reviews[i].rating >= min_rating])
        ranked == ranked_contractors(qualified)
    IN [results |-> SubSeq(ranked, 1, IF Len(ranked) < 3 THEN Len(ranked) ELSE 3),
        count |-> Len(ranked)]

\* the state find_contractors leaves the shared generator in: the reviews of
\* the last contractor seeded it with that contractor's name
generator_after(module, trade, location) ==
    LET names == mock_names(module, trade, location)
    IN SeededBy(names[Len(names)], "")

\* the state find_bookkeepers leaves the shared generator in: seeded by the
\* license check of the last bookkeeper when step 3 raises, by its reviews
\* otherwise
generator_after_bookkeepers(attrs, location) ==
    LET names == get_mock_bookkeepers(location)
    IN IF "_check_quickbooks_cert" \in attrs THEN SeededBy(names[Len(names)], "")
       ELSE IF is_california(location) THEN SeededBy(names[Len(names)], "cba")
       ELSE SeededBy(names[Len(names)], "")

(***************************************************************************)
(* The routes of the application.                                          *)
(***************************************************************************)
\* a parsed request body: FindRequest, or a body FastAPI rejects (ok FALSE)
FindRequest(trade, service, location, min_rating) ==
    [ok |-> TRUE, trade |-> trade, service |-> service, location |-> location,
     min_rating |-> min_rating]

MalformedBody == [ok |-> FALSE, trade |-> "", service |-> "", location |-> "",
                  min_rating |-> 0]

Bodies ==
    { MalformedBody,
      FindRequest("bookkeeper", "bookkeeper", "Miami, FL", 40),
      FindRequest("", "cpa", "Los Angeles, CA", 47) }

\* find_bookkeepers_endpoint
find_bookkeepers_endpoint(attrs, body) ==
    LET service == IF body.trade # "" THEN body.trade
                   ELSE IF body.service # "" THEN body.service ELSE "bookkeeper"
        result == find_bookkeepers(attrs, service, body.location, body.min_rating)
    IN  IF result.raised THEN result
        ELSE Return(DictSet(DictSet(DictSet(result.val,
                        "payment_status", JStr("received")),
                        "payment_amount", JStr("0.10 USDC")),
                        "payment_network", JStr(NETWORK)))

SkipPaths == { "/", "/health", "/docs", "/openapi.json", "/payment-info" }
ProtectedPaths == { "/find", "/api/search" }
Paths == SkipPaths \cup ProtectedPaths \cup { "/other" }
Methods == { "GET", "POST" }

Plain(status, body) == Return(Response(status, body, None, None))

\* whether the application runs a route handler for the request: the
\* endpoint of a protected route runs once FastAPI has validated the body
HandlerRuns(method, path, body) ==
    \/ path \in ProtectedPaths /\ method = "POST" /\ body.ok
    \/ path \in SkipPaths /\ method = "GET"

\* call_next(request): the route the application dispatches to.  The result
\* is the route's response, or the exception its handler raised.
call_next(attrs, method, path, body) ==
    IF path \in ProtectedPaths THEN
        IF method # "POST" THEN Plain(405, JDict(<< KV("detail", JStr("Method Not Allowed")) >>))
        ELSE IF ~body.ok THEN Plain(422, JDict(<< KV("detail", JStr("validation error")) >>))
        ELSE LET r == find_bookkeepers_endpoint(attrs, body) IN
             IF r.raised THEN r ELSE Plain(200, r.val)
    ELSE IF path \in SkipPaths THEN
        IF method # "GET" THEN Plain(405, JDict(<< KV("detail", JStr("Method Not Allowed")) >>))
        ELSE IF path = "/" THEN
            Plain(200, JDict(<< KV("name", JStr("BookkeeperFinder API")),
                                KV("network", JStr(NETWORK)),
                                KV("wallet", JStr(WALLET_ADDRESS)) >>))
        ELSE IF path = "/health" THEN
            Plain(200, JDict(<< KV("status", JStr("healthy")),
                                KV("payment_required", JBool(TRUE)),
                                KV("network", JStr(NETWORK)) >>))
        ELSE IF path = "/payment-info" THEN
            Plain(200, build_payment_required(
                "https://lexical-kalinda-x402-agents-10e84d5e.koyeb.app/api/search"))
        ELSE Plain(200, JStr(path))
    ELSE Plain(404, JDict(<< KV("detail", JStr("Not Found")) >>))

\* mutant: the server answers with the text of the exception
ServerError_Leaky(exc) == Response(500, JStr(exc), None, None)

\* the response the server sends when a handler's exception (of text exc)
\* reaches it: the exception leaves x402_middleware at line 171 and the
\* server's error handler answers
ServerError(exc) == Response(500, JStr("Internal Server Error"), None, None)


(***************************************************************************)
(* Requests.                                                               *)
(***************************************************************************)
\* the most headers a request of the model carries
MaxHeaders == 2

HeaderNames == { "PAYMENT-SIGNATURE", "X-Payment" }

\* payment header values a client sends
EvidenceObject == B64Encode(Dumps(JDict(<< KV("authorization", JDict(<< >>)) >>)))
EvidenceNumber == B64Encode(Dumps(JNum(5)))
EvidenceBadPadding == SubSeq(EvidenceObject, 1, Len(EvidenceObject) - 1)
EvidenceNotJson == B64Encode(<< Code(P("{")), JunkByte >>)

HeaderValues ==
    { << >>, EvidenceObject, EvidenceNumber, EvidenceBadPadding, EvidenceNotJson }

HeaderLists ==
    UNION { [1..n -> [name : HeaderNames, value : HeaderValues]] : n \in 0..MaxHeaders }

NoRequest == [method |-> "", path |-> "", headers |-> << >>]

(***************************************************************************)
(* x402_middleware, by the decisions it takes.                             *)
(***************************************************************************)
\* mutant: the gate applies to the paid paths whatever the method
IsProtected_AnyMethod(method, path) == path \in ProtectedPaths

\* lines 114-119: the gate applies to POST /find and POST /api/search only
IsProtected(method, path) ==
    /\ path \notin SkipPaths
    /\ ~(method # "POST" \/ path \notin ProtectedPaths)

\* mutant: the legacy header is looked up first
PaymentHeader_LegacyFirst(headers) ==
    PyOr(HeadersGet(headers, "x-payment"),
         PyOr(HeadersGet(headers, "X-PAYMENT"),
              PyOr(HeadersGet(headers, "payment-signature"),
                   HeadersGet(headers, "PAYMENT-SIGNATURE"))))

\* lines 122-127: the payment header the gate reads
PaymentHeader(headers) ==
    PyOr(HeadersGet(headers, "payment-signature"),
         PyOr(HeadersGet(headers, "PAYMENT-SIGNATURE"),
              PyOr(HeadersGet(headers, "x-payment"),
                   HeadersGet(headers, "X-PAYMENT"))))

\* lines 129-136: the challenge for a request without payment header
MissingChallenge(url) ==
    LET pr0 == build_payment_required(url)
    IN JSONResponse(402, pr0, encode_payment_required(pr0))

\* mutant: the except clause forgets to set the error text
MalformedChallenge_NoReason(url) == MissingChallenge(url)

\* lines 141-149: the challenge for a payment header that does not decode
MalformedChallenge(url) ==
    LET pr0 == DictSet(build_payment_required(url), "error",
                       JStr("Invalid payment signature"))
    IN JSONResponse(402, pr0, encode_payment_required(pr0))

\* line 158: verify_result.get("isValid", False)
IsValid(verify_result) == Truthy(DictGet(verify_result, "isValid", JBool(FALSE)))

\* lines 156-168: how the try block around the verify call ends.  "error" is
\* the except clause: the call raised, or verify_result.get did (a reply that
\* is no object).
VerifyOutcome(reply) ==
    IF reply.raised \/ ~IsDict(reply.val) THEN "error"
    ELSE IF ~IsValid(reply.val) THEN "invalid"
    ELSE "valid"

\* lines 158-171: only the invalid branch returns a challenge; after the
\* except clause and after a valid reply the request goes on to call_next
Passes(outcome) == outcome # "invalid"

\* mutant: the facilitator's reason is dropped
InvalidReason_Dropped(verify_result) == JStr("Payment verification failed")

\* line 159: the reason of a rejected payment
InvalidReason(verify_result) ==
    DictGet(verify_result, "invalidReason", JStr("Payment verification failed"))

\* lines 160-165: the challenge for a payment the facilitator rejects
RejectedChallenge(pr0, reason) ==
    JSONResponse(402, JDict(<< KV("error", reason) >>), encode_payment_required(pr0))

\* mutant: settlement after every response that is no server error
ShouldSettle_Below500(status) == status < 500

\* line 174: settlement follows a response of status 200
ShouldSettle(status) == status = 200

\* mutant: the receipt goes out as JSON text, not base64
SettleReceipt_Plain(settle_result) == Dumps(settle_result)

\* lines 177-179: the settlement receipt header
SettleReceipt(settle_result) == B64Encode(Dumps(settle_result))

\* lines 176-177: the settle call returned and settle_result.get("success")
\* is true (a call that raised, or a reply on which .get raises, ends in the
\* except clause of line 183)
SettleOk(reply) ==
    /\ ~reply.raised
    /\ IsDict(reply.val)
    /\ Truthy(DictGet(reply.val, "success", JNull))

\* mutant: no try around the settle call, its failure reaches the caller
SettledResponse_Surfaced(resp, reply) ==
    IF SettleOk(reply)
    THEN [resp EXCEPT !.payment_response = Some(SettleReceipt(reply.val))]
    ELSE ServerError("Settlement error")

\* lines 174-186: the response the gate returns after the settle call
SettledResponse(resp, reply) ==
    IF SettleOk(reply)
    THEN [resp EXCEPT !.payment_response = Some(SettleReceipt(reply.val))]
    ELSE resp

(***************************************************************************)
(* State.                                                                  *)
(***************************************************************************)
VARIABLES
    agent_attrs,      \* the attributes of the object the name agent is bound to
    pc,               \* where the request in flight stands
    request,          \* the request in flight
    body,             \* its body, once the route has read it
    payment_payload,  \* x402_middleware's local payment_payload
    pr,               \* x402_middleware's local pr
    requirements,     \* x402_middleware's local requirements
    verify_calls,     \* the calls made to the facilitator's /verify
    verify_result,    \* the outcome of the verify call
    handler_calls,    \* how often a route handler ran for the request
    inner,            \* the response call_next returned to the middleware
    settle_calls,     \* the calls made to the facilitator's /settle
    settle_result,    \* the outcome of the settle call
    response,         \* the response sent to the caller
    phases,           \* the stages the request went through
    served,           \* the exchanges finished so far, as an observer records them
    handler_module,   \* the module whose agent the process serves with
    rng_state,        \* the state of the generator module random shares
    handled,          \* the handler calls made so far, with what they returned
    clients,          \* the launch bots whose API client is configured
    dry_run,          \* the dry_run argument of run_full_launch
    launch_pc,        \* where run_full_launch stands
    launch_results,   \* LaunchOrchestrator.results, in insertion order
    external,         \* the calls made to Twitter, Reddit and GitHub
    tool_calls,       \* the MCP tool calls served so far, with their replies
    identities,       \* AgentIdentityRegistry.identities
    ownerAgents,      \* AgentIdentityRegistry.ownerAgents
    allAgents,        \* AgentIdentityRegistry.allAgents
    events,           \* the events the registry emitted
    txs,              \* the transactions sent to the registry, with their status
    block_timestamp   \* block.timestamp of the latest block

gate_vars == << agent_attrs, pc, request, body, payment_payload, pr, requirements,
                verify_calls, verify_result, handler_calls, inner, settle_calls,
                settle_result, response, phases, served >>

handler_vars == << handler_module, rng_state, handled >>

\* what a step of the gate leaves alone, and what a call of the handler
\* outside a request does
launch_vars == << clients, dry_run, launch_pc, launch_results, external >>

mcp_vars == << tool_calls >>

registry_vars == << identities, ownerAgents, allAgents, events, txs, block_timestamp >>

outside_gate == << handler_vars, launch_vars, mcp_vars, registry_vars >>
outside_handler == << gate_vars, launch_vars, mcp_vars, registry_vars >>
outside_launch == << gate_vars, handler_vars, mcp_vars, registry_vars >>

vars == << gate_vars, handler_vars, launch_vars, mcp_vars, registry_vars >>

NoReply == [raised |-> FALSE, val |-> JNull]

\* the per-request state before a request arrives
Fresh ==
    /\ request = NoRequest
    /\ body = MalformedBody
    /\ payment_payload = JNull
    /\ pr = JNull
    /\ requirements = JNull
    /\ verify_calls = << >>
    /\ verify_result = NoReply
    /\ handler_calls = 0
    /\ inner = NoResponse
    /\ settle_calls = << >>
    /\ settle_result = NoReply
    /\ response = NoResponse
    /\ phases = << >>

\* The name agent is bound to the BookkeeperFinderAgent singleton; the second
\* binding is an agent object on which the lookup of _check_quickbooks_cert
\* in step 3 of find_bookkeepers succeeds.
\* no launch is running
LaunchOff ==
    /\ clients = { }
    /\ dry_run = TRUE
    /\ launch_pc = "off"
    /\ launch_results = << >>
    /\ external = << >>

\* no tool call was served
McpIdle == tool_calls = << >>

\* the accounts that send transactions to the registry, and address(0)
Addresses == { "0xA", "0xB" }
ZeroAddress == "0x0"

\* the value of a key of mapping identities that was never written
NoIdentity ==
    [owner |-> ZeroAddress, metadataURI |-> "", registeredAt |-> 0,
     isActive |-> FALSE, reputationScore |-> 0]

\* the contract as deployed: empty mappings, an empty array and no events.
\* block.timestamp is Unix time in seconds, a positive number.
RegistryDeployed ==
    /\ identities = [a \in Addresses |-> NoIdentity]
    /\ ownerAgents = [a \in Addresses |-> << >>]
    /\ allAgents = << >>
    /\ events = << >>
    /\ txs = << >>
    /\ block_timestamp = 1

GateInit ==
    /\ agent_attrs \in { AgentMethods, AgentMethods \cup { "_check_quickbooks_cert" } }
    /\ pc = "idle"
    /\ Fresh
    /\ served = << >>

\* x402_integration serves with the agent of src/src/agent.py
Init ==
    /\ GateInit
    /\ handler_module = "agent"
    /\ rng_state = Unseeded
    /\ handled = << >>
    /\ LaunchOff
    /\ McpIdle
    /\ RegistryDeployed

\* A request arrives.
Receive ==
    /\ pc = "idle"
    /\ \E m \in Methods, p \in Paths, h \in HeaderLists :
           request' = [method |-> m, path |-> p, headers |-> h]
    /\ pc' = "middleware"
    /\ UNCHANGED << outside_gate, agent_attrs, served, body, payment_payload, pr, requirements,
                    verify_calls, verify_result, handler_calls, inner,
                    settle_calls, settle_result, response, phases >>

\* lines 113-119: a request the gate does not protect goes to its route, and
\* the route's response is the middleware's.
PassThrough ==
    /\ pc = "middleware"
    /\ ~IsProtected(request.method, request.path)
    /\ \E b \in Bodies :
         LET r == call_next(agent_attrs, request.method, request.path, b) IN
         /\ response' = IF r.raised THEN ServerError(r.exc) ELSE r.val
         /\ handler_calls' = handler_calls
                + (IF HandlerRuns(request.method, request.path, b) THEN 1 ELSE 0)
    /\ phases' = << "Bypassed" >>
    /\ pc' = "done"
    /\ UNCHANGED << outside_gate, agent_attrs, served, request, body, payment_payload, pr, requirements,
                    verify_calls, verify_result, inner, settle_calls, settle_result >>

\* lines 121-136: no payment header.
ChallengeMissing ==
    /\ pc = "middleware"
    /\ IsProtected(request.method, request.path)
    /\ ~TruthyText(PaymentHeader(request.headers))
    /\ pr' = build_payment_required(UrlOf(request.path))
    /\ response' = MissingChallenge(UrlOf(request.path))
    /\ phases' = << "NoEvidence", "Challenged" >>
    /\ pc' = "done"
    /\ UNCHANGED << outside_gate, agent_attrs, served, request, body, payment_payload, requirements,
                    verify_calls, verify_result, handler_calls, inner,
                    settle_calls, settle_result >>

\* lines 138-149: the payment header does not decode.
ChallengeMalformed ==
    /\ pc = "middleware"
    /\ IsProtected(request.method, request.path)
    /\ TruthyText(PaymentHeader(request.headers))
    /\ ~DecodePayment(PaymentHeader(request.headers).val).ok
    /\ pr' = DictSet(build_payment_required(UrlOf(request.path)), "error",
                     JStr("Invalid payment signature"))
    /\ response' = MalformedChallenge(UrlOf(request.path))
    /\ phases' = << "Evidence", "Malformed", "Challenged" >>
    /\ pc' = "done"
    /\ UNCHANGED << outside_gate, agent_attrs, served, request, body, payment_payload, requirements,
                    verify_calls, verify_result, handler_calls, inner,
                    settle_calls, settle_result >>

\* lines 138-157: the payment header decodes; the gate calls /verify.
StartVerify ==
    /\ pc = "middleware"
    /\ IsProtected(request.method, request.path)
    /\ TruthyText(PaymentHeader(request.headers))
    /\ DecodePayment(PaymentHeader(request.headers).val).ok
    /\ payment_payload' = DecodePayment(PaymentHeader(request.headers).val).v
    /\ pr' = build_payment_required(UrlOf(request.path))
    /\ requirements' = Accepts0(build_payment_required(UrlOf(request.path)))
    /\ verify_calls' = Append(verify_calls,
           FacilitatorCall("/verify", payment_payload', requirements'))
    /\ phases' = << "Evidence", "StructurallyValid", "FacilitatorCheck" >>
    /\ pc' = "verify"
    /\ UNCHANGED << outside_gate, agent_attrs, served, request, body, verify_result, handler_calls,
                    inner, settle_calls, settle_result, response >>

\* the stage a verify outcome stands for
OutcomePhase(outcome) ==
    CASE outcome = "valid"   -> "Valid"
      [] outcome = "invalid" -> "Invalid"
      [] OTHER               -> "CheckFailed"

\* lines 157-165: the verify call ends and the gate answers with a challenge
\* (the reply does not say the payment is valid).
VerifyChallenged ==
    /\ pc = "verify"
    /\ \E reply \in VerifyReplies :
         /\ ~Passes(VerifyOutcome(reply))
         /\ verify_result' = reply
         /\ response' = RejectedChallenge(pr, InvalidReason(reply.val))
         /\ phases' = phases \o << OutcomePhase(VerifyOutcome(reply)), "Challenged" >>
    /\ pc' = "done"
    /\ UNCHANGED << outside_gate, agent_attrs, served, request, body, payment_payload, pr, requirements,
                    verify_calls, handler_calls, inner, settle_calls, settle_result >>

\* lines 157-158, 166-170: the verify call ends and the request goes on to
\* call_next: the reply says the payment is valid, or the except clause ran
\* (the call raised on a network error, a timeout or a reply that is no JSON,
\* or verify_result.get raised on a reply that is no object).
VerifyPassed ==
    /\ pc = "verify"
    /\ \E reply \in VerifyReplies :
         /\ Passes(VerifyOutcome(reply))
         /\ verify_result' = reply
         /\ phases' = phases \o << OutcomePhase(VerifyOutcome(reply)) >>
    /\ pc' = "call_next"
    /\ UNCHANGED << outside_gate, agent_attrs, served, request, body, payment_payload, pr, requirements,
                    verify_calls, handler_calls, inner, settle_calls,
                    settle_result, response >>

\* line 171: call_next raises; the exception leaves the middleware and the
\* server answers 500.
CallNextRaises ==
    /\ pc = "call_next"
    /\ \E b \in Bodies :
         /\ call_next(agent_attrs, request.method, request.path, b).raised
         /\ body' = b
         /\ handler_calls' = handler_calls
                + (IF HandlerRuns(request.method, request.path, b) THEN 1 ELSE 0)
         /\ response' = ServerError(
                call_next(agent_attrs, request.method, request.path, b).exc)
    /\ phases' = phases \o << "HandlerFailed" >>
    /\ pc' = "done"
    /\ UNCHANGED << outside_gate, agent_attrs, served, request, payment_payload, pr, requirements,
                    verify_calls, verify_result, inner, settle_calls, settle_result >>

\* lines 171-176: call_next returns a response; with status 200 the gate
\* calls /settle, otherwise it returns the response as it is.
CallNextReturns ==
    /\ pc = "call_next"
    /\ \E b \in Bodies :
         LET r == call_next(agent_attrs, request.method, request.path, b) IN
         /\ ~r.raised
         /\ body' = b
         /\ inner' = r.val
         /\ IF ShouldSettle(r.val.status)
            THEN /\ settle_calls' = Append(settle_calls,
                        FacilitatorCall("/settle", payment_payload, requirements))
                 /\ phases' = phases \o << "Fulfilled", "SettlementAttempted" >>
                 /\ pc' = "settle"
                 /\ UNCHANGED response
            ELSE /\ response' = r.val
                 /\ phases' = phases \o << "HandlerFailed" >>
                 /\ pc' = "done"
                 /\ UNCHANGED settle_calls
         /\ handler_calls' = handler_calls
                + (IF HandlerRuns(request.method, request.path, b) THEN 1 ELSE 0)
    /\ UNCHANGED << outside_gate, agent_attrs, served, request, payment_payload, pr, requirements,
                    verify_calls, verify_result, settle_result >>

\* lines 176-180, 186: the settlement succeeded; the receipt goes into the
\* PAYMENT-RESPONSE header.
SettleSucceeded ==
    /\ pc = "settle"
    /\ \E reply \in SettleReplies :
         /\ SettleOk(reply)
         /\ settle_result' = reply
         /\ response' = SettledResponse(inner, reply)
    /\ pc' = "done"
    /\ UNCHANGED << outside_gate, agent_attrs, served, request, body, payment_payload, pr, requirements,
                    verify_calls, verify_result, handler_calls, inner,
                    settle_calls, phases >>

\* lines 176-177, 181-186: the settlement did not succeed, or the settle call
\* raised; the response goes out as call_next returned it.
SettleFailed ==
    /\ pc = "settle"
    /\ \E reply \in SettleReplies :
         /\ ~SettleOk(reply)
         /\ settle_result' = reply
         /\ response' = SettledResponse(inner, reply)
    /\ pc' = "done"
    /\ UNCHANGED << outside_gate, agent_attrs, served, request, body, payment_payload, pr, requirements,
                    verify_calls, verify_result, handler_calls, inner,
                    settle_calls, phases >>

\* The response is sent; nothing of the request is kept.
Finish ==
    /\ pc = "done"
    /\ pc' = "idle"
    /\ request' = NoRequest
    /\ body' = MalformedBody
    /\ payment_payload' = JNull
    /\ pr' = JNull
    /\ requirements' = JNull
    /\ verify_calls' = << >>
    /\ verify_result' = NoReply
    /\ handler_calls' = 0
    /\ inner' = NoResponse
    /\ settle_calls' = << >>
    /\ settle_result' = NoReply
    /\ response' = NoResponse
    /\ phases' = << >>
    /\ UNCHANGED << outside_gate, agent_attrs, served >>

Next ==
    \/ Receive
    \/ PassThrough
    \/ ChallengeMissing
    \/ ChallengeMalformed
    \/ StartVerify
    \/ VerifyChallenged
    \/ VerifyPassed
    \/ CallNextRaises
    \/ CallNextReturns
    \/ SettleSucceeded
    \/ SettleFailed
    \/ Finish

Spec == Init /\ [][Next]_vars

(***************************************************************************)
(* A client that sends requests with decodable evidence one after another, *)
(* and an observer that records each exchange when it ends.                *)
(***************************************************************************)
\* the most exchanges the observer records
MaxServed == 2

\* the request sent again and again
RepeatedRequest ==
    [method |-> "POST", path |-> "/find",
     headers |-> << [name |-> "X-Payment", value |-> EvidenceObject] >>]

ReceiveRepeated ==
    /\ pc = "idle"
    /\ Len(served) < MaxServed
    /\ request' = RepeatedRequest
    /\ pc' = "middleware"
    /\ UNCHANGED << outside_gate, agent_attrs, served, body, payment_payload, pr, requirements,
                    verify_calls, verify_result, handler_calls, inner,
                    settle_calls, settle_result, response, phases >>

\* the record of the exchange that ends
Exchange ==
    [request |-> request, body |-> body,
     verify_result |-> verify_result, settle_result |-> settle_result,
     response |-> response,
     verifies |-> Len(verify_calls), handlers |-> handler_calls,
     settles |-> Len(settle_calls)]

\* The response is sent and recorded; nothing of the request is kept.
FinishServed ==
    /\ pc = "done"
    /\ served' = Append(served, Exchange)
    /\ pc' = "idle"
    /\ request' = NoRequest
    /\ body' = MalformedBody
    /\ payment_payload' = JNull
    /\ pr' = JNull
    /\ requirements' = JNull
    /\ verify_calls' = << >>
    /\ verify_result' = NoReply
    /\ handler_calls' = 0
    /\ inner' = NoResponse
    /\ settle_calls' = << >>
    /\ settle_result' = NoReply
    /\ response' = NoResponse
    /\ phases' = << >>
    /\ UNCHANGED << outside_gate, agent_attrs >>

NextRepeat ==
    \/ ReceiveRepeated
    \/ StartVerify
    \/ VerifyChallenged
    \/ VerifyPassed
    \/ CallNextRaises
    \/ CallNextReturns
    \/ SettleSucceeded
    \/ SettleFailed
    \/ FinishServed

SpecRepeat == Init /\ [][NextRepeat]_vars

(***************************************************************************)
(* The resource handler called over and over in one process, each call     *)
(* recorded with what it returned.                                         *)
(***************************************************************************)
\* A step of the request the gate is at work on: the coroutine moves on to
\* its next await or to its return.
GateAdvance ==
    /\ pc \in { "middleware", "verify", "call_next", "settle" }
    /\ pc' \in { "verify", "call_next", "settle", "done" }

\* The event loop runs the coroutine of a request whenever it is ready, and
\* each awaited facilitator call returns, raises or times out: a request does
\* not stay at one await forever.  Every state where the gate is at work has
\* a step of Next, and the steps of Next that change pc there are the steps
\* of the middleware, so this is weak fairness of the middleware's steps.
SpecLive == Init /\ [][Next]_vars /\ WF_pc(GateAdvance)

\* the most handler calls recorded
MaxCalls == 2

\* a provider of a find_bookkeepers result, by the fields the ranking sets
ProviderOf(d) ==
    [name |-> DictGet(d, "name", JNull).s,
     rating |-> DictGet(d, "rating", JNull).n,
     review_count |-> DictGet(d, "review_count", JNull).n,
     quickbooks_certified |-> DictGet(d, "quickbooks_certified", JNull) = JBool(TRUE)]

InitHandler ==
    /\ GateInit
    /\ handler_module \in HandlerModules
    /\ rng_state = Unseeded
    /\ handled = << >>
    /\ LaunchOff
    /\ McpIdle
    /\ RegistryDeployed

\* agent.find_contractors(trade, location, min_rating) of agent_original or
\* agent_enhanced
CallFindContractors ==
    /\ handler_module \in { "agent_original", "agent_enhanced" }
    /\ Len(handled) < MaxCalls
    /\ \E trade \in Trades, location \in ContractorLocations,
          min_rating \in MinRatings, draws \in Draws(handler_module, rng_state) :
         LET r == find_contractors(handler_module, trade, location, min_rating, draws) IN
         /\ handled' = Append(handled,
                [query |-> << trade, location, min_rating >>,
                 raised |-> FALSE, results |-> r.results, count |-> r.count])
         /\ rng_state' = generator_after(handler_module, trade, location)
    /\ UNCHANGED << outside_handler, handler_module >>

\* agent.find_bookkeepers(service, location, min_rating) of agent
CallFindBookkeepers ==
    /\ handler_module = "agent"
    /\ Len(handled) < MaxCalls
    /\ \E service \in { "bookkeeper", "cpa" }, location \in Locations,
          min_rating \in MinRatings :
         LET r == find_bookkeepers(agent_attrs, service, location, min_rating)
             results == IF r.raised THEN << >>
                        ELSE [i \in 1..Len(DictGet(r.val, "results", JNull).items) |->
                                 ProviderOf(DictGet(r.val, "results", JNull).items[i].v)]
         IN
         /\ handled' = Append(handled,
                [query |-> << service, location, min_rating >>,
                 raised |-> r.raised, results |-> results,
                 count |-> IF r.raised THEN 0 ELSE DictGet(r.val, "count", JNull).n])
         /\ rng_state' = generator_after_bookkeepers(agent_attrs, location)
    /\ UNCHANGED << outside_handler, handler_module >>

NextHandler ==
    \/ CallFindContractors
    \/ CallFindBookkeepers

SpecHandler == InitHandler /\ [][NextHandler]_vars

(***************************************************************************)
(* The MCP server (src/src/mcp_server.py): its call_tool handler calls the  *)
(* agent object the import at line 14 binds.                               *)
(***************************************************************************)
\* the most tool calls recorded
MaxToolCalls == 2

ToolNames == { "find_contractors", "find_bookkeepers" }

\* the arguments of a tool call; min_rating may be left out
NoRating == 0 - 1
ToolArguments ==
    [trade : Trades, location : ContractorLocations, min_rating : MinRatings \cup { NoRating }]

\* the text of a reply, by what it says
ToolText(kind, listed, charged) == [kind |-> kind, listed |-> listed, charged |-> charged]

\* ContractorFinderAgent.generate_response: the contractors found, closed by
\* the line "Charged $0.1 USDC for this search", or one line when none is
\* found
generate_response(result) ==
    IF Len(result.results) = 0 THEN ToolText("none", << >>, FALSE)
    ELSE ToolText("found", [i \in 1..Len(result.results) |-> result.results[i].name], TRUE)

\* call_tool(name, arguments); module is the module `agent` was imported
\* from, draws the values the shared generator yields
call_tool(module, name, arguments, draws) ==
    IF name = "find_contractors"
    THEN IF module = "agent" THEN Raise("AttributeError")
         ELSE Return(generate_response(
                  find_contractors(module, arguments.trade, arguments.location,
                                   IF arguments.min_rating = NoRating THEN 40
                                   ELSE arguments.min_rating,
                                   draws)))
    ELSE Return(ToolText("unknown", << >>, FALSE))

InitMcp ==
    /\ GateInit
    /\ handler_module \in HandlerModules
    /\ rng_state = Unseeded
    /\ handled = << >>
    /\ LaunchOff
    /\ McpIdle
    /\ RegistryDeployed

\* a client calls a tool
CallTool ==
    /\ Len(tool_calls) < MaxToolCalls
    /\ \E name \in ToolNames, arguments \in ToolArguments,
          draws \in Draws(handler_module, rng_state) :
         LET r == call_tool(handler_module, name, arguments, draws) IN
         /\ tool_calls' = Append(tool_calls,
                [name |-> name, arguments |-> arguments, raised |-> r.raised,
                 text |-> IF r.raised THEN ToolText("error", << >>, FALSE) ELSE r.val])
         /\ rng_state' = IF name = "find_contractors" /\ ~r.raised
                         THEN generator_after(handler_module, arguments.trade,
                                              arguments.location)
                         ELSE rng_state
    /\ UNCHANGED << gate_vars, launch_vars, registry_vars, handler_module, handled >>

NextMcp == CallTool

SpecMcp == InitMcp /\ [][NextMcp]_vars

(***************************************************************************)
(* The launch bots (src/automation).  A bot with a configured client calls *)
(* the outside service, and each such call succeeds or raises.             *)
(***************************************************************************)
Bots == { "twitter", "reddit", "github" }

\* a value a bot returns: a dict with a status, or a list of such dicts
ResultDict(status, count) ==
    [kind |-> "dict", status |-> status, count |-> count, items |-> << >>]
ResultList(items) ==
    [kind |-> "list", status |-> "", count |-> 0, items |-> items]

\* what a bot method did: the value it returned and the calls it made
Did(result, calls) == [result |-> result, calls |-> calls]

\* the tweets of the launch thread, by their place in the list
Tweets == << 1, 2, 3, 4, 5 >>

\* mutant: every tweet is posted on its own, none as a reply
post_launch_thread_NoReply(has_client, posted) ==
    IF ~has_client THEN Did(ResultDict("mock", Len(Tweets)), << >>)
    ELSE LET calls == [i \in 1..posted |->
                          [service |-> "twitter", op |-> "update_status",
                           what |-> Tweets[i], in_reply_to |-> 0]]
         IN IF posted = Len(Tweets) THEN Did(ResultDict("success", posted), calls)
            ELSE Did(ResultDict("error", 0), calls)

\* TwitterBot.post_launch_thread; posted is how many update_status calls
\* succeed before one raises (all of them when posted = Len(Tweets)).  The
\* id of a posted tweet is its place in the list.
post_launch_thread(has_client, posted) ==
    IF ~has_client THEN Did(ResultDict("mock", Len(Tweets)), << >>)
    ELSE LET calls == [i \in 1..posted |->
                          [service |-> "twitter", op |-> "update_status",
                           what |-> Tweets[i],
                           in_reply_to |-> IF i = 1 THEN 0 ELSE Tweets[i - 1]]]
         IN IF posted = Len(Tweets) THEN Did(ResultDict("success", posted), calls)
            ELSE Did(ResultDict("error", 0), calls)

\* RedditBot.TARGET_SUBREDDITS
TARGET_SUBREDDITS ==
    << "r/SideProject", "r/SaaS", "r/Entrepreneur", "r/webdev",
       "r/ArtificialInteligence" >>

\* the subreddits post_launch has a post for
LaunchPosts == << "r/SideProject", "r/SaaS", "r/ArtificialInteligence" >>

\* RedditBot.post_to_subreddit; raises says whether sub.submit raises
post_to_subreddit(has_client, subreddit, raises) ==
    IF ~has_client THEN Did(ResultDict("mock", 0), << >>)
    ELSE IF raises THEN Did(ResultDict("error", 0), << >>)
    ELSE Did(ResultDict("success", 0),
             << [service |-> "reddit", op |-> "submit", what |-> subreddit,
                 in_reply_to |-> 0] >>)

\* RedditBot.post_launch; failing are the places of the posts whose submit
\* raises
post_launch(has_client, failing) ==
    LET one(i) == post_to_subreddit(has_client, LaunchPosts[i], i \in failing)
    IN Did(ResultList([i \in 1..Len(LaunchPosts) |-> one(i).result]),
           one(1).calls \o one(2).calls \o one(3).calls)

\* GitHubBot.create_registry_pr; done is how many of the calls create_git_ref
\* and create_pull succeed before one raises
create_registry_pr(has_client, done) ==
    LET ref == [service |-> "github", op |-> "create_git_ref",
                what |-> "add-contractor-finder", in_reply_to |-> 0]
        pull == [service |-> "github", op |-> "create_pull",
                 what |-> "add-contractor-finder", in_reply_to |-> 0]
    IN IF ~has_client THEN Did(ResultDict("mock", 0), << >>)
       ELSE IF done = 0 THEN Did(ResultDict("error", 0), << >>)
       ELSE IF done = 1 THEN Did(ResultDict("error", 0), << ref >>)
       ELSE Did(ResultDict("success", 0), << ref, pull >>)

\* GitHubBot.create_repo_release; raises says whether a GitHub call raises
create_repo_release(has_client, raises) ==
    IF ~has_client THEN Did(ResultDict("mock", 0), << >>)
    ELSE IF raises THEN Did(ResultDict("error", 0), << >>)
    ELSE Did(ResultDict("success", 0),
             << [service |-> "github", op |-> "create_git_release",
                 what |-> "v1.0.0", in_reply_to |-> 0] >>)

\* X402BazaarBot.submit_to_bazaar: prints the submission
submit_to_bazaar == Did(ResultDict("ready", 0), << >>)

\* A process starts run_full_launch.
InitLaunch ==
    /\ GateInit
    /\ handler_module = "agent"
    /\ rng_state = Unseeded
    /\ handled = << >>
    /\ clients \in SUBSET Bots
    /\ dry_run \in BOOLEAN
    /\ launch_pc = "twitter"
    /\ launch_results = << >>
    /\ external = << >>
    /\ McpIdle
    /\ RegistryDeployed

\* self.results[key] = the value a bot method returned, after its calls
Record(key, did, next) ==
    /\ launch_results' = Append(launch_results, << key, did.result >>)
    /\ external' = external \o did.calls
    /\ launch_pc' = next
    /\ UNCHANGED << outside_launch, clients, dry_run >>

\* orchestrator.py line 50
RunTwitter ==
    /\ launch_pc = "twitter"
    /\ \E posted \in 0..Len(Tweets) :
         Record("twitter", post_launch_thread("twitter" \in clients, posted), "reddit")

\* line 53
RunReddit ==
    /\ launch_pc = "reddit"
    /\ \E failing \in SUBSET (1..Len(LaunchPosts)) :
         Record("reddit", post_launch("reddit" \in clients, failing), "github_pr")

\* line 60
RunGithubPr ==
    /\ launch_pc = "github_pr"
    /\ \E done \in 0..2 :
         Record("github_pr", create_registry_pr("github" \in clients, done),
                "github_release")

\* line 63
RunGithubRelease ==
    /\ launch_pc = "github_release"
    /\ \E raises \in BOOLEAN :
         Record("github_release", create_repo_release("github" \in clients, raises),
                "x402")

\* line 70
RunBazaar ==
    /\ launch_pc = "x402"
    /\ Record("x402", submit_to_bazaar, "summary")

\* lines 72-94: the summary calls result.get("status") on each value of
\* self.results, which raises on a value that is a list
Summary ==
    /\ launch_pc = "summary"
    /\ launch_pc' = IF \E i \in 1..Len(launch_results) : launch_results[i][2].kind # "dict"
                    THEN "raised" ELSE "returned"
    /\ UNCHANGED << outside_launch, clients, dry_run, launch_results, external >>

NextLaunch ==
    \/ RunTwitter
    \/ RunReddit
    \/ RunGithubPr
    \/ RunGithubRelease
    \/ RunBazaar
    \/ Summary

SpecLaunch == InitLaunch /\ [][NextLaunch]_vars


(***************************************************************************)
(* The AgentIdentityRegistry contract that generate_solidity_contract      *)
(* writes (src/src/erc8004_identity.py).  A transaction whose require      *)
(* fails reverts: it changes no storage and emits nothing.                 *)
(***************************************************************************)
\* the most transactions sent to the registry
MaxTxs == 4

\* the metadataURI arguments in use; "" is the empty string
MetadataURIs == { "", "ipfs://agent" }

\* the outcome of a transaction: reverted, or the storage and events it leaves
Revert(reason) ==
    [reverted |-> TRUE, reason |-> reason, identities |-> identities,
     ownerAgents |-> ownerAgents, allAgents |-> allAgents, events |-> events]
Commit(ids, owned, all, emitted) ==
    [reverted |-> FALSE, reason |-> "", identities |-> ids,
     ownerAgents |-> owned, allAgents |-> all, events |-> events \o emitted]

\* mutant: register without the require on registeredAt
register_Again(sender, metadataURI, timestamp) ==
    IF metadataURI = "" THEN Revert("Metadata URI required")
    ELSE Commit([identities EXCEPT ![sender] =
                    [owner |-> sender, metadataURI |-> metadataURI,
                     registeredAt |-> timestamp, isActive |-> TRUE,
                     reputationScore |-> 0]],
                [ownerAgents EXCEPT ![sender] = Append(@, sender)],
                Append(allAgents, sender),
                << [event |-> "AgentRegistered", agent |-> sender,
                    metadataURI |-> metadataURI, at |-> timestamp] >>)

\* function register(string calldata metadataURI)
register(sender, metadataURI, timestamp) ==
    IF metadataURI = "" THEN Revert("Metadata URI required")
    ELSE IF identities[sender].registeredAt # 0 THEN Revert("Agent already registered")
    ELSE Commit([identities EXCEPT ![sender] =
                    [owner |-> sender, metadataURI |-> metadataURI,
                     registeredAt |-> timestamp, isActive |-> TRUE,
                     reputationScore |-> 0]],
                [ownerAgents EXCEPT ![sender] = Append(@, sender)],
                Append(allAgents, sender),
                << [event |-> "AgentRegistered", agent |-> sender,
                    metadataURI |-> metadataURI, at |-> timestamp] >>)

\* function updateMetadata(string calldata newMetadataURI)
updateMetadata(sender, newMetadataURI, timestamp) ==
    IF ~identities[sender].isActive THEN Revert("Agent not active")
    ELSE Commit([identities EXCEPT ![sender].metadataURI = newMetadataURI],
                ownerAgents, allAgents,
                << [event |-> "AgentUpdated", agent |-> sender,
                    metadataURI |-> newMetadataURI, at |-> timestamp] >>)

\* function deactivate()
deactivate(sender, timestamp) ==
    Commit([identities EXCEPT ![sender].isActive = FALSE],
           ownerAgents, allAgents,
           << [event |-> "AgentDeactivated", agent |-> sender,
               metadataURI |-> "", at |-> timestamp] >>)

\* function getAgentCount()
getAgentCount == Len(allAgents)

\* function isRegistered(address agent)
isRegistered(agent) == identities[agent].registeredAt > 0

\* a transaction from sender is mined, in the latest block or in a new one
\* with a later timestamp, and leaves outcome
Mined(sender, fn, outcome, timestamp) ==
    /\ identities' = outcome.identities
    /\ ownerAgents' = outcome.ownerAgents
    /\ allAgents' = outcome.allAgents
    /\ events' = outcome.events
    /\ txs' = Append(txs, [sender |-> sender, fn |-> fn, reverted |-> outcome.reverted])
    /\ block_timestamp' = timestamp
    /\ UNCHANGED << gate_vars, handler_vars, launch_vars, mcp_vars >>

Register ==
    /\ Len(txs) < MaxTxs
    /\ \E sender \in Addresses, metadataURI \in MetadataURIs,
          timestamp \in { block_timestamp, block_timestamp + 1 } :
         Mined(sender, "register", register(sender, metadataURI, timestamp), timestamp)

UpdateMetadata ==
    /\ Len(txs) < MaxTxs
    /\ \E sender \in Addresses, newMetadataURI \in MetadataURIs,
          timestamp \in { block_timestamp, block_timestamp + 1 } :
         Mined(sender, "updateMetadata",
               updateMetadata(sender, newMetadataURI, timestamp), timestamp)

Deactivate ==
    /\ Len(txs) < MaxTxs
    /\ \E sender \in Addresses, timestamp \in { block_timestamp, block_timestamp + 1 } :
         Mined(sender, "deactivate", deactivate(sender, timestamp), timestamp)

NextRegistry ==
    \/ Register
    \/ UpdateMetadata
    \/ Deactivate

SpecRegistry == Init /\ [][NextRegistry]_vars

(***************************************************************************)
(* Properties.                                                             *)
(***************************************************************************)
Done == pc = "done"
ProtectedRequest == request.method = "POST" /\ request.path \in { "/find", "/api/search" }

\* the request carries no payment header at all
NoPaymentHeader ==
    \A i \in 1..Len(request.headers) :
        Lower(request.headers[i].name) \notin { "payment-signature", "x-payment" }

\* the facilitator's verify reply for this request said isValid true
VerifiedValid ==
    /\ Len(verify_calls) = 1
    /\ ~verify_result.raised
    /\ IsDict(verify_result.val)
    /\ DictGet(verify_result.val, "isValid", JNull) = JBool(TRUE)

\* the verify call for this request raised (network error, timeout)
VerifyUnreachable == Len(verify_calls) = 1 /\ pc # "verify" /\ verify_result.raised

\* the facilitator's verify reply for this request said isValid false
ReportedInvalid ==
    /\ Len(verify_calls) = 1
    /\ ~verify_result.raised
    /\ IsDict(verify_result.val)
    /\ DictGet(verify_result.val, "isValid", JNull) = JBool(FALSE)

\* the handler's result went back to the caller
HandlerResultReturned ==
    /\ Done
    /\ handler_calls > 0
    /\ response.status = 200
    /\ DictGet(response.body, "payment_status", JNull) = JStr("received")

C2_NoHeaderChallenge ==
    (Done /\ ProtectedRequest /\ NoPaymentHeader) =>
        /\ response.status = 402
        /\ handler_calls = 0
        /\ verify_calls = << >> /\ settle_calls = << >>
        /\ IsDict(response.body)
        /\ LET accepts == DictGet(response.body, "accepts", JNull) IN
           /\ accepts.t = "list" /\ Len(accepts.items) = 1
           /\ DictGet(accepts.items[1].v, "network", JNull) = JStr(NETWORK)
           /\ DictGet(accepts.items[1].v, "asset", JNull) = JStr(USDC_ADDRESS)
           /\ DictGet(accepts.items[1].v, "amount", JNull) = JStr(PRICE_BASE_UNITS)
           /\ DictGet(accepts.items[1].v, "payTo", JNull) = JStr(WALLET_ADDRESS)
           /\ DictGet(accepts.items[1].v, "amount", JNull) = JStr("100000")
           /\ DictGet(accepts.items[1].v, "network", JNull) = JStr("eip155:8453")

C2_Witness ==
    /\ Done /\ ProtectedRequest /\ NoPaymentHeader
    /\ response.status = 402
    /\ request.path = "/api/search"

\* the values of the request's two payment headers
PaymentHeaderValues ==
    { HeadersGet(request.headers, "payment-signature"),
      HeadersGet(request.headers, "x-payment") }

\* the request carries no payment header with a value
NoEvidence == \A h \in PaymentHeaderValues : ~h.present \/ h.val = << >>

\* the request carries a payment header with a value (an empty value counts
\* as no header, line 129), and no payment header value of it decodes
UndecodableHeader ==
    /\ ~NoEvidence
    /\ \A h \in PaymentHeaderValues :
          (h.present /\ h.val # << >>) =>
              LET raw == B64Decode(h.val) IN ~raw.ok \/ ~Loads(raw.bytes).ok

\* C3: a protected request whose payment header is present but cannot be
\* base64-decoded and parsed as JSON is answered 402 with the error "Invalid
\* payment signature", never 500, and neither the facilitator nor the handler
\* is called.
C3_MalformedChallenge ==
    (Done /\ ProtectedRequest /\ UndecodableHeader) =>
        /\ response.status = 402
        /\ response.status # 500
        /\ IsDict(response.body)
        /\ DictGet(response.body, "error", JNull) = JStr("Invalid payment signature")
        /\ verify_calls = << >> /\ settle_calls = << >>
        /\ handler_calls = 0

C3_Witness ==
    /\ Done /\ ProtectedRequest /\ UndecodableHeader
    /\ \E h \in PaymentHeaderValues : h.val # << >> /\ ~B64Decode(h.val).ok
    /\ \E h \in PaymentHeaderValues : h.val # << >> /\ B64Decode(h.val).ok
    /\ response.status = 402

\* C4: when the evidence decodes and the facilitator's verify reply reports
\* the payment invalid, the response is 402, its error field is the reason the
\* facilitator stated, and the handler is not invoked.
C4_RejectedEchoesReason ==
    (Done /\ ProtectedRequest /\ ReportedInvalid) =>
        /\ response.status = 402
        /\ handler_calls = 0
        /\ IsDict(response.body)
        /\ HasKey(verify_result.val, "invalidReason") =>
              DictGet(response.body, "error", JNull)
                  = DictGet(verify_result.val, "invalidReason", JNull)

C4_Witness ==
    /\ Done /\ ProtectedRequest /\ ReportedInvalid
    /\ HasKey(verify_result.val, "invalidReason")
    /\ DictGet(response.body, "error", JNull) = JStr("insufficient_funds")

\* C5: a protected request with a well-formed body whose evidence the
\* facilitator accepts is passed on, the handler completes, and the response
\* is 200 with payment_status "received".
C5_AcceptedIsServed ==
    (Done /\ ProtectedRequest /\ VerifiedValid /\ handler_calls > 0 /\ body.ok) =>
        /\ response.status = 200
        /\ DictGet(response.body, "payment_status", JNull) = JStr("received")

\* C6: missing evidence, malformed evidence, facilitator-rejected evidence and
\* an unreachable facilitator each end the request with 402 and a reason
\* string, and the handler is not invoked.
C6_PaymentFailuresChallenge ==
    (/\ ProtectedRequest
     /\ \/ Done /\ NoEvidence
        \/ Done /\ UndecodableHeader
        \/ Done /\ ReportedInvalid
        \/ VerifyUnreachable) =>
        /\ handler_calls = 0
        /\ Done => /\ response.status = 402
                   /\ IsDict(response.body)
                   /\ DictGet(response.body, "error", JNull).t = "str"

\* a failure of the verify call: it raised, or the reply has no isValid field
IsVerifyFailure(reply) ==
    \/ reply.raised
    \/ IsDict(reply.val) /\ ~HasKey(reply.val, "isValid")

\* C7: every failure of the verify call gets the same decision: whether the
\* call raises or returns an error reply without isValid, the gate decides
\* the same (fulfil or challenge).
C7_OneFailurePolicy ==
    pc = "verify" =>
        \A r1, r2 \in VerifyReplies :
            (IsVerifyFailure(r1) /\ IsVerifyFailure(r2)) =>
                Passes(VerifyOutcome(r1)) = Passes(VerifyOutcome(r2))

\* C8: on every 402 of the gate the PAYMENT-REQUIRED header is the base64
\* encoding of the JSON object sent as the response body.
C8_HeaderMatchesBody ==
    (Done /\ ProtectedRequest /\ response.status = 402) =>
        /\ response.payment_required.present
        /\ LET raw == B64Decode(response.payment_required.val) IN
           /\ raw.ok
           /\ Loads(raw.bytes).ok
           /\ Loads(raw.bytes).v = response.body

\* the paths of the per-request state machine
StateMachinePaths ==
    { << "NoEvidence", "Challenged" >>,
      << "Evidence", "Malformed", "Challenged" >>,
      << "Evidence", "StructurallyValid", "FacilitatorCheck", "Invalid", "Challenged" >>,
      << "Evidence", "StructurallyValid", "FacilitatorCheck", "Valid", "Fulfilled",
         "SettlementAttempted" >> }

\* C9: every request to a protected route follows one path of the state
\* machine; Fulfilled is reached only from a facilitator check that returned
\* Valid and is always followed by a settlement attempt.
C9_StateMachine ==
    (Done /\ ProtectedRequest) => phases \in StateMachinePaths

\* C10: the settle endpoint is called only once the handler's response for
\* the request exists with status 200: never for a request answered 402, for
\* another handler status, for a handler exception or for a route the gate
\* does not protect.
C10_SettleOnlyAfter200 ==
    /\ Len(settle_calls) > 0 =>
          /\ ProtectedRequest
          /\ handler_calls = 1
          /\ inner.status = 200
          /\ Done => response.status = 200
    /\ (Done /\ (response.status # 200 \/ ~ProtectedRequest)) => settle_calls = << >>

C10_Witness ==
    /\ pc = "settle"
    /\ Len(settle_calls) = 1
    /\ settle_calls[1].url = "/settle"
    /\ inner.status = 200

\* a settle call was made for the request and has ended
Settled == Done /\ Len(settle_calls) = 1

\* C11: the outcome of settlement never changes what the caller receives: for
\* an accepted request whose handler returned 200, status and body of the
\* response are the handler's whether the settle call reports success,
\* reports failure or raises.
C11_SettlementKeepsResponse ==
    /\ pc = "settle" =>
          \A reply \in SettleReplies :
              /\ SettledResponse(inner, reply).status = 200
              /\ SettledResponse(inner, reply).body = inner.body
    /\ Settled =>
          /\ response.status = 200
          /\ response.body = inner.body
          /\ inner = call_next(agent_attrs, request.method, request.path, body).val

C11_Witness ==
    /\ Settled
    /\ settle_result.raised
    /\ response.status = 200
    /\ DictGet(response.body, "payment_status", JNull) = JStr("received")

C14_OthersBypass ==
    (Done /\ ~ProtectedRequest) =>
        /\ phases = << "Bypassed" >>
        /\ response.status # 402
        /\ ~response.payment_required.present
        /\ verify_calls = << >> /\ settle_calls = << >>
        /\ \E b \in Bodies :
              response = call_next(agent_attrs, request.method, request.path, b).val

C14_Witness ==
    /\ Done /\ ~ProtectedRequest
    /\ request.method = "GET" /\ request.path = "/find"
    /\ TruthyText(PaymentHeader(request.headers))
    /\ response.status = 405

\* the handler raised while serving the request
HandlerRaised ==
    /\ Done /\ ProtectedRequest /\ handler_calls = 1
    /\ call_next(agent_attrs, request.method, request.path, body).raised

\* C15: when the handler raises while serving a request the gate has let
\* through, the caller gets 500 with a generic message that holds none of the
\* exception's text, never 402 and never 200.
C15_HandlerFailureIs500 ==
    HandlerRaised =>
        /\ response.status = 500
        /\ response.body = JStr("Internal Server Error")
        /\ response.body
              # JStr(call_next(agent_attrs, request.method, request.path, body).exc)
        /\ ~response.payment_required.present

C15_Witness ==
    /\ HandlerRaised
    /\ VerifiedValid
    /\ response.status = 500

\* the payment header the gate reads decodes to JSON that is no object
NonObjectEvidence ==
    /\ TruthyText(PaymentHeader(request.headers))
    /\ DecodePayment(PaymentHeader(request.headers).val).ok
    /\ ~IsDict(DecodePayment(PaymentHeader(request.headers).val).v)

\* C16: a payment header that decodes to JSON which is no object (a number, a
\* string, a list, null) is answered 402 with an invalid-payment reason, and
\* neither the facilitator nor the handler is called.
C16_NonObjectEvidenceRejected ==
    (ProtectedRequest /\ NonObjectEvidence /\ pc # "middleware") =>
        /\ verify_calls = << >>
        /\ handler_calls = 0
        /\ Done => /\ response.status = 402
                   /\ DictGet(response.body, "error", JNull)
                         = JStr("Invalid payment signature")

\* the values found under the canonical and under the legacy header name
SignatureValue == HeadersGet(request.headers, "PAYMENT-SIGNATURE")
LegacyValue == HeadersGet(request.headers, "X-PAYMENT")

\* C17: the gate reads the evidence from PAYMENT-SIGNATURE and from the
\* legacy X-PAYMENT, names matched whatever their case: a non-empty value
\* under either name makes the request one with evidence, an empty value is
\* no evidence, and with both non-empty the PAYMENT-SIGNATURE value is the
\* one decoded.
C17_HeaderLookup ==
    (Done /\ ProtectedRequest) =>
        /\ (phases[1] = "Evidence")
              = (TruthyText(SignatureValue) \/ TruthyText(LegacyValue))
        /\ (phases[1] = "NoEvidence")
              = (~TruthyText(SignatureValue) /\ ~TruthyText(LegacyValue))
        /\ TruthyText(SignatureValue) =>
              /\ (phases[2] = "Malformed") = ~DecodePayment(SignatureValue.val).ok
              /\ DecodePayment(SignatureValue.val).ok =>
                    /\ payment_payload = DecodePayment(SignatureValue.val).v
                    /\ DictGet(verify_calls[1].json, "paymentPayload", JNull)
                          = DecodePayment(SignatureValue.val).v
        /\ (~TruthyText(SignatureValue) /\ TruthyText(LegacyValue)) =>
              (phases[2] = "Malformed") = ~DecodePayment(LegacyValue.val).ok

C17_Witness ==
    /\ Done /\ ProtectedRequest
    /\ SignatureValue = Some(EvidenceNumber)
    /\ LegacyValue = Some(EvidenceObject)
    /\ \E i \in 1..Len(request.headers) : request.headers[i].name = "X-Payment"
    /\ payment_payload = JNum(5)

\* an exchange in which the facilitator accepted the evidence and the body
\* of the request was well formed
AcceptedExchange(e) ==
    /\ ~e.verify_result.raised
    /\ IsDict(e.verify_result.val)
    /\ DictGet(e.verify_result.val, "isValid", JNull) = JBool(TRUE)
    /\ e.body.ok

\* C13: the same valid-evidence request sent twice yields two independent
\* 200 responses: each of the two requests has its own verify call, handler
\* invocation and settlement attempt, and what the second one gets depends
\* on its own headers, body and facilitator replies only.
C13_RepeatYieldsTwo200 ==
    /\ \A i \in 1..Len(served) :
          AcceptedExchange(served[i]) =>
              /\ served[i].response.status = 200
              /\ served[i].verifies = 1
              /\ served[i].handlers = 1
              /\ served[i].settles = 1
    /\ \A i, j \in 1..Len(served) :
          (/\ served[i].request = served[j].request
           /\ served[i].body = served[j].body
           /\ served[i].verify_result = served[j].verify_result
           /\ served[i].settle_result = served[j].settle_result) =>
              served[i].response = served[j].response

\* the part of C13 that does not rest on the handler completing: an exchange
\* is determined by its own request, body and facilitator replies, and the
\* gate is back in its initial state between two requests
RepeatIndependent ==
    /\ pc = "idle" => Fresh
    /\ \A i \in 1..Len(served) :
          /\ served[i].verifies = 1
          /\ served[i].settles = (IF served[i].response.status = 200 THEN 1 ELSE 0)
    /\ \A i, j \in 1..Len(served) :
          (/\ served[i].request = served[j].request
           /\ served[i].body = served[j].body
           /\ served[i].verify_result = served[j].verify_result
           /\ served[i].settle_result = served[j].settle_result) =>
              served[i].response = served[j].response

\* the key a handler call ranks a provider by
RankingScore(p) ==
    IF handler_module = "agent" THEN score(p) ELSE contractor_score(p)

\* C18 as stated: the provider list the handler returns has between 0 and 3
\* entries and is ordered by non-increasing rating.
C18_RatingDescending ==
    \A k \in 1..Len(handled) :
        ~handled[k].raised =>
            /\ Len(handled[k].results) \in 0..3
            /\ \A i \in 1..(Len(handled[k].results) - 1) :
                  handled[k].results[i].rating >= handled[k].results[i + 1].rating

\* C18, amended: the provider list the handler returns holds the first three
\* (or all, when fewer) of the providers with at least the minimum rating,
\* and is ordered by non-increasing score: rating times review count, plus
\* 50 for a QuickBooks certified provider in find_bookkeepers.
C18_ScoreDescending ==
    \A k \in 1..Len(handled) :
        ~handled[k].raised =>
            /\ Len(handled[k].results) \in 0..3
            /\ Len(handled[k].results)
                  = (IF handled[k].count < 3 THEN handled[k].count ELSE 3)
            /\ \A i \in 1..Len(handled[k].results) :
                  handled[k].results[i].rating >= handled[k].query[3]
            /\ \A i \in 1..(Len(handled[k].results) - 1) :
                  RankingScore(handled[k].results[i])
                      >= RankingScore(handled[k].results[i + 1])

C18_Witness ==
    \E k \in 1..Len(handled) :
        /\ ~handled[k].raised
        /\ Len(handled[k].results) = 3
        /\ handled[k].results[1].rating < handled[k].results[2].rating
        /\ RankingScore(handled[k].results[1]) > RankingScore(handled[k].results[2])

\* C19: the handler is a stateless pure function of the query: two calls with
\* the same trade, location and minimum rating return the same provider list,
\* addresses and phones included, whatever calls were made before.
C19_HandlerIsPure ==
    \A i, j \in 1..Len(handled) :
        handled[i].query = handled[j].query =>
            /\ handled[i].raised = handled[j].raised
            /\ handled[i].results = handled[j].results

\* C20: run_full_launch with dry_run=True only prints what would be done: no
\* bot makes a call to Twitter, Reddit or GitHub during it, whatever
\* credentials are configured.
C20_DryRunIsDry ==
    dry_run => external = << >>

\* the value run_full_launch stored under a key, once it is there
ResultOf(key) ==
    LET i == CHOOSE i \in 1..Len(launch_results) : launch_results[i][1] = key
    IN launch_results[i][2]
HasResult(key) == \E i \in 1..Len(launch_results) : launch_results[i][1] = key

\* C21: RedditBot.post_launch posts the announcement to every subreddit in
\* TARGET_SUBREDDITS and returns one result per target subreddit: its list has
\* as many results as there are targets, and when the client is configured and
\* no submission raised, every target received a submission.
C21_PostsToEveryTarget ==
    HasResult("reddit") =>
        LET r == ResultOf("reddit")
        IN /\ Len(r.items) = Len(TARGET_SUBREDDITS)
           /\ ("reddit" \in clients /\ \A i \in 1..Len(r.items) : r.items[i].status = "success")
                 => \A t \in 1..Len(TARGET_SUBREDDITS) :
                      \E c \in 1..Len(external) :
                         /\ external[c].op = "submit"
                         /\ external[c].what = TARGET_SUBREDDITS[t]

\* the tool calls that returned search results with the line "Charged ..."
ChargedReplies == { i \in 1..Len(tool_calls) : tool_calls[i].text.charged }

ResourceObtained ==
    /\ Done
    /\ ProtectedRequest
    /\ response.status = 200
    /\ DictGet(response.body, "payment_status", JNull) = JStr("received")
    /\ HasKey(response.body, "results")

\* the settle call of this request reported success
SettleReportedSuccess == Len(settle_calls) = 1 /\ SettleOk(settle_result)

ChallengedRequirement ==
    DictGet(MissingChallenge(UrlOf(request.path)).body, "accepts", JNull).items[1].v

\* C24: within one request the verify call and the settle call receive the
\* same payment payload, the decoded header, and the same requirement, which
\* is accepts[0] of the challenge issued for the same URL without evidence.
C24_SameEvidenceAndRequirement ==
    /\ Len(verify_calls) >= 1 =>
          /\ DictGet(verify_calls[1].json, "paymentPayload", JNull)
                = DecodePayment(PaymentHeader(request.headers).val).v
          /\ DictGet(verify_calls[1].json, "paymentRequirements", JNull)
                = ChallengedRequirement
    /\ Len(settle_calls) >= 1 =>
          /\ Len(verify_calls) = 1
          /\ settle_calls[1].json = verify_calls[1].json

\* a request for which both facilitator calls were made
C24_Witness ==
    /\ Done
    /\ Len(verify_calls) = 1
    /\ Len(settle_calls) = 1
    /\ settle_calls[1].url = "/settle"
    /\ verify_calls[1].url = "/verify"

\* the gate is at work on a protected request
GateBusy == pc \in { "middleware", "verify", "call_next", "settle" }

\* C25: every request to a protected route eventually ends with exactly one
\* response, given that each facilitator call returns, fails or times out;
\* the gate makes at most one verify call and at most one settle call, and
\* every facilitator call carries a timeout.
C25_EndsWithOneResponse ==
    /\ [](Len(verify_calls) <= 1 /\ Len(settle_calls) <= 1)
    /\ [](\A i \in 1..Len(verify_calls) : verify_calls[i].timeout > 0)
    /\ [](\A i \in 1..Len(settle_calls) : settle_calls[i].timeout > 0)
    /\ [](GateBusy => response = NoResponse)
    /\ [](Done => response # NoResponse)
    /\ ((pc = "middleware" /\ ProtectedRequest) ~> Done)

\* a request that ended although both facilitator calls failed
C25_Witness ==
    /\ Done
    /\ ProtectedRequest
    /\ Len(verify_calls) = 1 /\ verify_result.raised
    /\ Len(settle_calls) = 1 /\ settle_result.raised
    /\ response # NoResponse

\* the mock providers the search of a handler call finds, in the order
\* found, each with the rating and the score its reviews give it
SearchPool(query) ==
    IF handler_module = "agent"
    THEN LET names == get_mock_bookkeepers(query[2])
         IN [i \in 1..Len(names) |->
                [name |-> names[i],
                 rating |-> mock_reviews(names[i]).rating,
                 score |-> score([rating |-> mock_reviews(names[i]).rating,
                                  review_count |-> mock_reviews(names[i]).review_count,
                                  quickbooks_certified |-> quickbooks_certified(names[i])])]]
    ELSE LET names == mock_names(handler_module, query[1], query[2])
             reviews(n) == IF handler_module = "agent_original" THEN get_reviews(n)
                           ELSE get_enhanced_mock_reviews(n)
         IN [i \in 1..Len(names) |->
                [name |-> names[i],
                 rating |-> reviews(names[i]).rating,
                 score |-> contractor_score(reviews(names[i]))]]

\* the providers of the pool with at least the minimum rating of the query
PassingFilter(query) ==
    { i \in 1..Len(SearchPool(query)) : SearchPool(query)[i].rating >= query[3] }

\* C26: in a result of find_contractors / find_bookkeepers every listed
\* provider has at least the minimum rating, at most three are listed, the
\* listed ones are distinct providers that pass the filter and no provider
\* that passes and is left out scores higher than a listed one, and count is
\* the number of providers passing the filter: at least the number listed,
\* and 0 exactly when the list is empty.
C26_TopOfThoseQualified ==
    \A k \in 1..Len(handled) :
        ~handled[k].raised =>
            LET q == handled[k].query
                listed == handled[k].results
                pool == SearchPool(q)
                at(i) == CHOOSE j \in 1..Len(pool) : pool[j].name = listed[i].name
            IN /\ \A i \in 1..Len(listed) : listed[i].rating >= q[3]
               /\ Len(listed) <= 3
               /\ \A i \in 1..Len(listed) :
                     /\ \E j \in PassingFilter(q) : pool[j].name = listed[i].name
                     /\ pool[at(i)].rating = listed[i].rating
                     /\ pool[at(i)].score = RankingScore(listed[i])
               /\ \A i, j \in 1..Len(listed) : i # j => listed[i].name # listed[j].name
               /\ \A j \in PassingFilter(q) :
                     (\A i \in 1..Len(listed) : listed[i].name # pool[j].name) =>
                         \A i \in 1..Len(listed) : pool[j].score <= RankingScore(listed[i])
               /\ handled[k].count = Cardinality(PassingFilter(q))
               /\ handled[k].count >= Len(listed)
               /\ (listed = << >>) <=> (handled[k].count = 0)

\* two searches: one lists three of more that pass while the filter rejects
\* some, one finds nothing to list
C26_Witness ==
    \E k, m \in 1..Len(handled) :
        /\ ~handled[k].raised /\ ~handled[m].raised
        /\ Len(handled[k].results) = 3
        /\ handled[k].count > 3
        /\ handled[k].count < Len(SearchPool(handled[k].query))
        /\ handled[m].results = << >>
        /\ handled[m].count = 0

\* the keys run_full_launch stores results under, in the order of its tasks
LaunchTasks == << "twitter", "reddit", "github_pr", "github_release", "x402" >>

\* C27: run_full_launch runs its five tasks in the order twitter, reddit,
\* github_pr, github_release, x402, each once, then prints the summary and
\* returns the results map with exactly those five keys; it completes this
\* way whatever statuses (mock, error) the bots report.
C27_FullLaunchReturnsFiveResults ==
    /\ Len(launch_results) <= Len(LaunchTasks)
    /\ \A i \in 1..Len(launch_results) : launch_results[i][1] = LaunchTasks[i]
    /\ launch_pc \in { "summary", "raised", "returned" }
          => Len(launch_results) = Len(LaunchTasks)
    /\ launch_pc # "raised"

\* the calls made to Twitter, in the order made
TwitterCalls == SelectSeq(external, LAMBDA c : c.service = "twitter")

\* C28: with a client, TwitterBot.post_launch_thread posts the tweets of its
\* list in list order, the first on its own and each later one as a reply to
\* the one posted before it; it returns "success" with five ids only when
\* all five were posted; when a post raises it stops there and returns
\* "error", and the tweets posted before stay posted (it makes no other call).
C28_ThreadIsAChain ==
    (HasResult("twitter") /\ "twitter" \in clients) =>
        LET r == ResultOf("twitter")
        IN /\ Len(TwitterCalls) <= Len(Tweets)
           /\ \A i \in 1..Len(TwitterCalls) :
                 /\ TwitterCalls[i].op = "update_status"
                 /\ TwitterCalls[i].what = Tweets[i]
                 /\ TwitterCalls[i].in_reply_to
                       = (IF i = 1 THEN 0 ELSE TwitterCalls[i - 1].what)
           /\ r.status \in { "success", "error" }
           /\ r.status = "success" <=> Len(TwitterCalls) = Len(Tweets)
           /\ r.status = "success" => r.count = 5

\* a thread of five tweets was posted and reported
C28_Witness ==
    /\ HasResult("twitter")
    /\ "twitter" \in clients
    /\ ResultOf("twitter").status = "success"
    /\ Len(TwitterCalls) = 5
    /\ TwitterCalls[5].in_reply_to = TwitterCalls[4].what

\* the places in txs of the transactions of sender that called fn and did
\* not revert
Succeeded(sender, fn) ==
    { i \in 1..Len(txs) : txs[i].sender = sender /\ txs[i].fn = fn /\ ~txs[i].reverted }

\* C29: in the registry, register succeeds at most once per address, also
\* after the address called deactivate; allAgents never holds an address
\* twice; getAgentCount is the number of addresses with isRegistered true.
C29_RegisteredOnce ==
    /\ \A a \in Addresses : Cardinality(Succeeded(a, "register")) <= 1
    /\ \A i, j \in 1..Len(allAgents) : i # j => allAgents[i] # allAgents[j]
    /\ getAgentCount = Cardinality({ a \in Addresses : isRegistered(a) })

\* an address registered, deactivated, and its next register reverted, while
\* another address is registered as well
C29_Witness ==
    /\ getAgentCount = 2
    /\ \E a \in Addresses :
         \E i \in Succeeded(a, "register"), j \in Succeeded(a, "deactivate") :
             \E k \in 1..Len(txs) :
                 /\ i < j /\ j < k
                 /\ txs[k].sender = a /\ txs[k].fn = "register" /\ txs[k].reverted

\* C30: in the registry, a call of updateMetadata succeeds only when its
\* sender registered before and has not deactivated since; once an address
\* has called deactivate its isActive flag is false from then on and every
\* later updateMetadata of it reverts; isActive is true only for a
\* registered address.
C30_DeactivationIsFinal ==
    \A a \in Addresses :
        /\ \A u \in Succeeded(a, "updateMetadata") :
              /\ \E r \in Succeeded(a, "register") : r < u
              /\ \A d \in Succeeded(a, "deactivate") : u < d
        /\ Succeeded(a, "deactivate") # { } => ~identities[a].isActive
        /\ identities[a].isActive => isRegistered(a)


=============================================================================
